---- MODULE Spec2Model ----
(***************************************************************************)
(* The HTTP MCP transport (mcp-server/transports/http/httpTransport.ts)    *)
(* and the shutdown of the process (index.ts).                             *)
(*                                                                         *)
(* Gateway: the Session Store (sessionStore), the Transport Registry       *)
(* (sessionTransports), the transports constructed so far, the clock and   *)
(* the requests in flight.  One action per step of the request handler     *)
(* between two suspension points, and one per engine callback.             *)
(* Pipeline: the stages a request runs through before the handler.         *)
(* Launcher: startHttpServerWithRetry, one action per callback.            *)
(* Shutdown: shutdown(signal), one action per await.                       *)
(***************************************************************************)
EXTENDS Integers, FiniteSets, Sequences, TLC

\* ---------------------------------------------------------------- bounds
MaxSessions == 2      \* session ids are 1..MaxSessions; 0 is "no header"
MaxTransports == 2    \* transport objects in memory at a time
MaxInFlight == 2      \* requests handled concurrently
MaxTime == 2          \* the clock runs 0..MaxTime

\* config.mcpStatefulSessionStaleTimeoutMs
StaleTimeoutMs == 1

SessionIds == 1..MaxSessions
TransportIds == 1..MaxTransports
Slots == 1..MaxInFlight

NoSessionId == 0      \* header absent / transport.sessionId undefined
NoTransport == 0

\* ------------------------------------------------------------ identities
NoAuth == [present |-> FALSE, tenantId |-> "", clientId |-> "", subject |-> ""]

AuthInfoOf(t, c, s) == [present |-> TRUE, tenantId |-> t, clientId |-> c, subject |-> s]

\* authInfo values a request may carry ("" is an unset claim)
AuthInfos ==
  { NoAuth,
    AuthInfoOf("a", "c", "u"),
    AuthInfoOf("a", "c", "v") }

Undefined == [defined |-> FALSE, tenantId |-> "", clientId |-> "", subject |-> ""]

\* extractSessionIdentity: only truthy claims are copied; an identity with
\* no key is undefined
extractSessionIdentity_DropSubject(authInfo) ==
  IF ~authInfo.present THEN Undefined
  ELSE IF authInfo.tenantId = "" /\ authInfo.clientId = ""
       THEN Undefined
       ELSE [defined |-> TRUE, tenantId |-> authInfo.tenantId,
             clientId |-> authInfo.clientId, subject |-> ""]

extractSessionIdentity(authInfo) ==
  IF ~authInfo.present THEN Undefined
  ELSE IF authInfo.tenantId = "" /\ authInfo.clientId = "" /\ authInfo.subject = ""
       THEN Undefined
       ELSE [defined |-> TRUE, tenantId |-> authInfo.tenantId,
             clientId |-> authInfo.clientId, subject |-> authInfo.subject]

\* --------------------------------------------------------- Session Store
NoSession == [exists |-> FALSE, identity |-> Undefined, createdAt |-> 0, lastAccessedAt |-> 0]

\* the staleness test with the timeout itself counted as stale
IsStale_AtTimeout(rec, t) == t - rec.lastAccessedAt >= StaleTimeoutMs

\* staleness policy: now - lastAccessedAt > staleTimeoutMs
IsStale(rec, t) == t - rec.lastAccessedAt > StaleTimeoutMs

IsLive(S, id, t) == S[id].exists /\ ~IsStale(S[id], t)

IdentityMatches(bound, presented) == ~bound.defined \/ bound = presented

\* isValidForIdentity(sessionId, identity) -> bool
IsValidForIdentity(S, id, identity, t) ==
  IsLive(S, id, t) /\ IdentityMatches(S[id].identity, identity)

\* the store after isValidForIdentity: a stale record found is evicted
AfterValidation(S, id, t) ==
  IF S[id].exists /\ IsStale(S[id], t) THEN [S EXCEPT ![id] = NoSession] ELSE S

\* getOrCreate writing a new record whether or not a live one exists
GetOrCreate_Overwrite(S, id, identity, t) ==
  [S EXCEPT ![id] = [exists |-> TRUE, identity |-> identity,
                     createdAt |-> t, lastAccessedAt |-> t]]

\* getOrCreate(sessionId, identity)
GetOrCreate(S, id, identity, t) ==
  IF IsLive(S, id, t)
  THEN [S EXCEPT ![id].lastAccessedAt = t]
  ELSE [S EXCEPT ![id] = [exists |-> TRUE, identity |-> identity,
                          createdAt |-> t, lastAccessedAt |-> t]]

\* terminate removing by position: an id that is not found removes the
\* last record instead of nothing
Terminate_RemovesLastOnMiss(S, id) ==
  IF S[id].exists THEN [S EXCEPT ![id] = NoSession]
  ELSE LET held == { k \in DOMAIN S : S[k].exists }
       IN IF held = {} THEN S
          ELSE [S EXCEPT ![CHOOSE k \in held : \A j \in held : j <= k] = NoSession]

\* terminate(sessionId)
Terminate(S, id) == [S EXCEPT ![id] = NoSession]

\* -------------------------------------------------------------- requests
Methods == {"GET", "POST", "DELETE"}

\* body of a POST: an initialize request (or a batch holding one), any other
\* JSON, or text that is not JSON; the body of other methods is not read
\* ("none")
Bodies == {"init", "other", "invalid"}

\* a request as the client sent it
NoRequest == [method |-> "GET", sid |-> NoSessionId, auth |-> NoAuth, body |-> "none"]

\* a handler slot: what handleRpc holds across its awaits (the method and
\* parsedBody handed to the engine, and the transport)
Idle == [pc |-> "idle", method |-> "GET", body |-> "none", transport |-> NoTransport]

NoTransportRec == [kind |-> "none", sessionId |-> NoSessionId, identity |-> Undefined,
                   connects |-> 0, closed |-> FALSE]

NoResponse == [sid |-> NoSessionId, status |-> 0, error |-> ""]

VARIABLES
  isStatefulMode,     \* config.mcpSessionMode === 'stateful'
  idGen,              \* "secure" | "deterministic" (test mode)
  now,                \* Date.now()
  sessionStore,       \* SessionStore records by id
  sessionTransports,  \* Map<string, StreamableHTTPServerTransport>
  transports,         \* the transport objects in memory
  nextSessionId,      \* ids handed out by the secure generator
  terminated,         \* ids on which terminate() was called
  req,                \* requests in flight, by slot
  last,               \* the request that completed last
  mcpAllowedOrigins,  \* config.mcpAllowedOrigins
  authStrategy,       \* createAuthStrategy() returned a strategy
  trail,              \* the stages the request that arrived last ran through
  portStatus,         \* what a listen() on each port meets
  maxRetries,         \* config.mcpHttpMaxPortRetries
  binder,             \* tryBind: its position and its arguments port, attempt
  probed,             \* the ports handed to isPortInUse, in order
  settled,            \* the calls of resolve and reject of the launcher's promise
  listening,          \* the port the server listens on (NoPort: none)
  serverRunning,      \* index.ts: server.IsRunning
  isShuttingDown,     \* index.ts: let isShuttingDown
  shutdownPc,         \* the await the proceeding shutdown() is suspended at
  triggers,           \* the signals and faults shutdown() was called for, in order
  performed,          \* the shutdown steps started, in order
  raised,             \* the shutdown steps that raised, in order
  exits,              \* the codes process.exit was called with, in order
  startPc,            \* index.ts: the await start() is suspended at
  handlers,           \* the events start() has registered a process handler for
  startFailure,       \* the step of start() that failed ("none": no step)
  payload,            \* isInitializationPayload: its argument
  initVerdict,        \* isInitializationPayload: the values it returned, in order
  handoff,            \* handleRpc: nodeReq.auth, the auth context, what was handed over
  getStudy,           \* ClinicalTrialsGetStudyTool.runTool: its locals and its outcome
  fetchAll            \* fetchAllStudies: its locals and its outcome

gatewayVars == <<isStatefulMode, idGen, now, sessionStore, sessionTransports, transports,
                 nextSessionId, terminated, req, last>>

pipelineVars == <<mcpAllowedOrigins, authStrategy, trail>>

launcherVars == <<portStatus, maxRetries, binder, probed, settled, listening>>

processVars == <<serverRunning, isShuttingDown, shutdownPc, triggers, performed, raised,
                 exits>>

startVars == <<startPc, handlers, startFailure>>

serverVars == <<gatewayVars, pipelineVars, launcherVars, processVars, startVars>>

payloadVars == <<payload, initVerdict>>

\* the variables of the functions that are exercised on their own
unitVars == <<payloadVars, handoff, getStudy, fetchAll>>

vars == <<serverVars, unitVars>>

\* --------------------------------------------------------- server at rest
\* Each specification exercises one part of the server and leaves the other
\* parts as they are while the server is up and serving.

\* config.mcpAllowedOrigins: not configured, or a list of origins
NotConfigured == [configured |-> FALSE, list |-> {}]

\* The gateway specifications draw requests as app.all receives them, past
\* the Origin Guard and the auth middleware, with the auth context the
\* middleware left: the configuration of these stages is not read there
BehindPipeline ==
  /\ mcpAllowedOrigins = NotConfigured
  /\ authStrategy = FALSE
  /\ trail = <<>>

\* no request is between its resolution and handleRequest
NoHandoff ==
  [pc |-> "none", before |-> NoAuth, auth |-> NoAuth,
   authStore |-> [store |-> FALSE, authInfo |-> NoAuth], handed |-> <<>>]

\* the get-study tool has not been called
NoGetStudy ==
  [pc |-> "none", nctIds |-> <<>>, pending |-> {}, studies |-> <<>>, errors |-> <<>>,
   result |-> [kind |-> "none", studies |-> <<>>, hasErrors |-> FALSE, errors |-> <<>>]]

\* fetchAllStudies has not been called
NoFetchAll ==
  [pc |-> "none", maxStudies |-> 0, totalStudies |-> 0, allStudies |-> 0,
   pageToken |-> FALSE, paged |-> FALSE, result |-> "none"]

\* a JSON value that is no message
NoMessage == [method |-> "", params |-> ""]

\* no JSON value: the body of a request that has none
Absent == [kind |-> "undefined", message |-> NoMessage, batch |-> <<>>]

\* the functions that are exercised on their own have not been called
UnitsIdle ==
  /\ payload = Absent
  /\ initVerdict = <<>>
  /\ handoff = NoHandoff
  /\ getStudy = NoGetStudy
  /\ fetchAll = NoFetchAll

\* config.mcpHttpPort
InitialPort == 3010

NoPort == 0

\* startHttpServerWithRetry has resolved with a server listening on the
\* configured port at the first attempt
ServerListening ==
  /\ portStatus = [p \in {InitialPort} |-> "free"]
  /\ maxRetries = 0
  /\ binder = [pc |-> "done", port |-> InitialPort, attempt |-> 1]
  /\ probed = <<InitialPort>>
  /\ settled = <<[kind |-> "resolve", port |-> InitialPort]>>
  /\ listening = InitialPort

\* start() has started the server and registered the process handlers, and
\* none has fired
ProcessRunning ==
  /\ startPc = "running"
  /\ handlers = {"SIGTERM", "SIGINT", "uncaughtException", "unhandledRejection"}
  /\ startFailure = "none"
  /\ serverRunning = TRUE
  /\ isShuttingDown = FALSE
  /\ shutdownPc = "none"
  /\ triggers = <<>>
  /\ performed = <<>>
  /\ raised = <<>>
  /\ exits = <<>>

\* ------------------------------------------------------ session id source
\* generateSecureSessionId: a token that was never handed out before; in
\* test mode a deterministic generator returns the same id every time
DeterministicId == 1

CanGenerate == idGen = "deterministic" \/ nextSessionId <= MaxSessions

GeneratedId == IF idGen = "deterministic" THEN DeterministicId ELSE nextSessionId

\* ------------------------------------------------------------ resolution
\* elements of a batch in a payload
MaxBatch == 3

\* JSON-RPC messages as isInitializeRequest of the MCP SDK sees them: the
\* method, and whether the params are those of an initialize request
Messages ==
  [method : {"initialize", "tools/list"}, params : {"initialize", "other"}]

\* isInitializeRequest(message): InitializeRequestSchema accepts the value
isInitializeRequest(message) ==
  message.method = "initialize" /\ message.params = "initialize"

Batches == UNION { [1..n -> Messages] : n \in 0..MaxBatch }

\* the values a parsed body can be: no value, a falsy value, one envelope
\* (also a JSON object that is no message) or a batch
Payloads ==
  { [kind |-> k, message |-> NoMessage, batch |-> <<>>] :
      k \in {"undefined", "null", "false", "zero", "emptyString", "object"} }
  \cup { [kind |-> "object", message |-> m, batch |-> <<>>] : m \in Messages }
  \cup { [kind |-> "array", message |-> NoMessage, batch |-> b] : b \in Batches }

\* !payload
Falsy(value) == value.kind \in {"undefined", "null", "false", "zero", "emptyString"}

\* payload.some(...) as Array.prototype.some runs: the elements in order,
\* up to the first that passes
RECURSIVE some(_, _)
some(batch, k) ==
  IF k > Len(batch) THEN FALSE
  ELSE IF isInitializeRequest(batch[k]) THEN TRUE
  ELSE some(batch, k + 1)

\* isInitializationPayload that looks at the first message of a batch only
isInitializationPayload_FirstOnly(value) ==
  IF Falsy(value) THEN FALSE
  ELSE IF value.kind = "array"
       THEN Len(value.batch) > 0 /\ isInitializeRequest(value.batch[1])
       ELSE isInitializeRequest(value.message)

\* isInitializationPayload(payload)
isInitializationPayload(value) ==
  IF Falsy(value) THEN FALSE
  ELSE IF value.kind = "array" THEN some(value.batch, 1)
  ELSE isInitializeRequest(value.message)

\* parsedBody: the value c.req.json() gave for the body of a POST (undefined
\* for the other methods): an initialize request, or another request
parsedBody(body) ==
  CASE body = "init" ->
         [kind |-> "object", batch |-> <<>>,
          message |-> [method |-> "initialize", params |-> "initialize"]]
    [] body = "other" ->
         [kind |-> "object", batch |-> <<>>,
          message |-> [method |-> "tools/list", params |-> "other"]]
    [] OTHER -> Absent

Reject(status, error) ==
  [kind |-> "response", status |-> status, error |-> error,
   transport |-> NoTransport, created |-> FALSE]

\* resolveTransportForRequest with the registry consulted first and the
\* store's verdict ignored for an id that has a transport
resolveTransportForRequest_RegistryOnly(r, S, T, t) ==
  IF ~isStatefulMode
  THEN IF r.method = "DELETE"
       THEN Reject(405, "Session termination not supported in stateless mode")
       ELSE [kind |-> "create", status |-> 0, error |-> "",
             transport |-> NoTransport, created |-> TRUE]
  ELSE IF r.sid # NoSessionId
  THEN IF T[r.sid] = NoTransport
       THEN Reject(404, "Session not found or expired")
       ELSE [kind |-> "reuse", status |-> 0, error |-> "",
             transport |-> T[r.sid], created |-> FALSE]
  ELSE IF r.method # "POST"
  THEN Reject(400, "Mcp-Session-Id header required for this request")
  ELSE IF ~isInitializationPayload(parsedBody(r.body))
  THEN Reject(400, "Initialization request required to create a new MCP session.")
  ELSE [kind |-> "create", status |-> 0, error |-> "",
        transport |-> NoTransport, created |-> TRUE]

\* resolveTransportForRequest building a transport for every POST that
\* carries an initialize request, whether or not it presents a session id
resolveTransportForRequest_AlwaysCreate(r, S, T, t) ==
  LET sessionIdentity == extractSessionIdentity(r.auth) IN
  IF ~isStatefulMode
  THEN IF r.method = "DELETE"
       THEN Reject(405, "Session termination not supported in stateless mode")
       ELSE [kind |-> "create", status |-> 0, error |-> "",
             transport |-> NoTransport, created |-> TRUE]
  ELSE IF r.method = "POST" /\ isInitializationPayload(parsedBody(r.body))
  THEN [kind |-> "create", status |-> 0, error |-> "",
        transport |-> NoTransport, created |-> TRUE]
  ELSE IF r.sid # NoSessionId
  THEN IF ~IsValidForIdentity(S, r.sid, sessionIdentity, t)
       THEN Reject(404, "Session not found or expired")
       ELSE IF T[r.sid] = NoTransport
       THEN Reject(404, "Session not found or expired")
       ELSE [kind |-> "reuse", status |-> 0, error |-> "",
             transport |-> T[r.sid], created |-> FALSE]
  ELSE IF r.method # "POST"
  THEN Reject(400, "Mcp-Session-Id header required for this request")
  ELSE Reject(400, "Initialization request required to create a new MCP session.")

\* resolveTransportForRequest testing the payload before the session id: a
\* POST that carries no initialize request is answered 400 whatever id it
\* presents
resolveTransportForRequest_InitCheckFirst(r, S, T, t) ==
  LET sessionIdentity == extractSessionIdentity(r.auth) IN
  IF ~isStatefulMode
  THEN IF r.method = "DELETE"
       THEN Reject(405, "Session termination not supported in stateless mode")
       ELSE [kind |-> "create", status |-> 0, error |-> "",
             transport |-> NoTransport, created |-> TRUE]
  ELSE IF r.method = "POST" /\ ~isInitializationPayload(parsedBody(r.body))
  THEN Reject(400, "Initialization request required to create a new MCP session.")
  ELSE IF r.sid # NoSessionId
  THEN IF ~IsValidForIdentity(S, r.sid, sessionIdentity, t)
       THEN Reject(404, "Session not found or expired")
       ELSE IF T[r.sid] = NoTransport
       THEN Reject(404, "Session not found or expired")
       ELSE [kind |-> "reuse", status |-> 0, error |-> "",
             transport |-> T[r.sid], created |-> FALSE]
  ELSE IF r.method # "POST"
  THEN Reject(400, "Mcp-Session-Id header required for this request")
  ELSE [kind |-> "create", status |-> 0, error |-> "",
        transport |-> NoTransport, created |-> TRUE]

\* resolveTransportForRequest building a transport for a valid session id
\* that has none in the registry
resolveTransportForRequest_CreateWhenUnbound(r, S, T, t) ==
  LET sessionIdentity == extractSessionIdentity(r.auth) IN
  IF ~isStatefulMode
  THEN IF r.method = "DELETE"
       THEN Reject(405, "Session termination not supported in stateless mode")
       ELSE [kind |-> "create", status |-> 0, error |-> "",
             transport |-> NoTransport, created |-> TRUE]
  ELSE IF r.sid # NoSessionId
  THEN IF ~IsValidForIdentity(S, r.sid, sessionIdentity, t)
       THEN Reject(404, "Session not found or expired")
       ELSE IF T[r.sid] = NoTransport
       THEN [kind |-> "create", status |-> 0, error |-> "",
             transport |-> NoTransport, created |-> TRUE]
       ELSE [kind |-> "reuse", status |-> 0, error |-> "",
             transport |-> T[r.sid], created |-> FALSE]
  ELSE IF r.method # "POST"
  THEN Reject(400, "Mcp-Session-Id header required for this request")
  ELSE IF ~isInitializationPayload(parsedBody(r.body))
  THEN Reject(400, "Initialization request required to create a new MCP session.")
  ELSE [kind |-> "create", status |-> 0, error |-> "",
        transport |-> NoTransport, created |-> TRUE]

\* resolveTransportForRequest without the isInitializationPayload test
resolveTransportForRequest_NoInitCheck(r, S, T, t) ==
  LET sessionIdentity == extractSessionIdentity(r.auth) IN
  IF ~isStatefulMode
  THEN IF r.method = "DELETE"
       THEN Reject(405, "Session termination not supported in stateless mode")
       ELSE [kind |-> "create", status |-> 0, error |-> "",
             transport |-> NoTransport, created |-> TRUE]
  ELSE IF r.sid # NoSessionId
  THEN IF ~IsValidForIdentity(S, r.sid, sessionIdentity, t)
       THEN Reject(404, "Session not found or expired")
       ELSE IF T[r.sid] = NoTransport
       THEN Reject(404, "Session not found or expired")
       ELSE [kind |-> "reuse", status |-> 0, error |-> "",
             transport |-> T[r.sid], created |-> FALSE]
  ELSE IF r.method # "POST"
  THEN Reject(400, "Mcp-Session-Id header required for this request")
  ELSE [kind |-> "create", status |-> 0, error |-> "",
        transport |-> NoTransport, created |-> TRUE]

\* resolveTransportForRequest without the method test: any request without
\* a session id that is not a POST of another payload starts a session
resolveTransportForRequest_NoMethodCheck(r, S, T, t) ==
  LET sessionIdentity == extractSessionIdentity(r.auth) IN
  IF ~isStatefulMode
  THEN IF r.method = "DELETE"
       THEN Reject(405, "Session termination not supported in stateless mode")
       ELSE [kind |-> "create", status |-> 0, error |-> "",
             transport |-> NoTransport, created |-> TRUE]
  ELSE IF r.sid # NoSessionId
  THEN IF ~IsValidForIdentity(S, r.sid, sessionIdentity, t)
       THEN Reject(404, "Session not found or expired")
       ELSE IF T[r.sid] = NoTransport
       THEN Reject(404, "Session not found or expired")
       ELSE [kind |-> "reuse", status |-> 0, error |-> "",
             transport |-> T[r.sid], created |-> FALSE]
  ELSE IF r.method = "POST" /\ ~isInitializationPayload(parsedBody(r.body))
  THEN Reject(400, "Initialization request required to create a new MCP session.")
  ELSE [kind |-> "create", status |-> 0, error |-> "",
        transport |-> NoTransport, created |-> TRUE]

\* resolveTransportForRequest without the DELETE test of stateless mode
resolveTransportForRequest_StatelessDelete(r, S, T, t) ==
  LET sessionIdentity == extractSessionIdentity(r.auth) IN
  IF ~isStatefulMode
  THEN [kind |-> "create", status |-> 0, error |-> "",
        transport |-> NoTransport, created |-> TRUE]
  ELSE IF r.sid # NoSessionId
  THEN IF ~IsValidForIdentity(S, r.sid, sessionIdentity, t)
       THEN Reject(404, "Session not found or expired")
       ELSE IF T[r.sid] = NoTransport
       THEN Reject(404, "Session not found or expired")
       ELSE [kind |-> "reuse", status |-> 0, error |-> "",
             transport |-> T[r.sid], created |-> FALSE]
  ELSE IF r.method # "POST"
  THEN Reject(400, "Mcp-Session-Id header required for this request")
  ELSE IF ~isInitializationPayload(parsedBody(r.body))
  THEN Reject(400, "Initialization request required to create a new MCP session.")
  ELSE [kind |-> "create", status |-> 0, error |-> "",
        transport |-> NoTransport, created |-> TRUE]

\* resolveTransportForRequest: the Resolution of request r against Session
\* Store S and Transport Registry T at time t.  kind "create" stands for a
\* transport constructed for this request, "reuse" for a registered one.
resolveTransportForRequest(r, S, T, t) ==
  LET sessionIdentity == extractSessionIdentity(r.auth) IN
  IF ~isStatefulMode
  THEN IF r.method = "DELETE"
       THEN Reject(405, "Session termination not supported in stateless mode")
       ELSE [kind |-> "create", status |-> 0, error |-> "",
             transport |-> NoTransport, created |-> TRUE]
  ELSE IF r.sid # NoSessionId
  THEN IF ~IsValidForIdentity(S, r.sid, sessionIdentity, t)
       THEN Reject(404, "Session not found or expired")
       ELSE IF T[r.sid] = NoTransport
       THEN Reject(404, "Session not found or expired")
       ELSE [kind |-> "reuse", status |-> 0, error |-> "",
             transport |-> T[r.sid], created |-> FALSE]
  ELSE IF r.method # "POST"
  THEN Reject(400, "Mcp-Session-Id header required for this request")
  ELSE IF ~isInitializationPayload(parsedBody(r.body))
  THEN Reject(400, "Initialization request required to create a new MCP session.")
  ELSE [kind |-> "create", status |-> 0, error |-> "",
        transport |-> NoTransport, created |-> TRUE]

\* resolveTransportForRequest calling getOrCreate for every presented id
StoreAfterResolution_CreateOnMiss(r, S, T, t) ==
  IF ~isStatefulMode \/ r.sid = NoSessionId THEN S
  ELSE GetOrCreate(AfterValidation(S, r.sid, t), r.sid,
                   extractSessionIdentity(r.auth), t)

\* resolveTransportForRequest without the getOrCreate of the reuse path
StoreAfterResolution_NoTouch(r, S, T, t) ==
  IF ~isStatefulMode \/ r.sid = NoSessionId THEN S
  ELSE AfterValidation(S, r.sid, t)

\* the Session Store after resolveTransportForRequest: isValidForIdentity
\* evicts a stale record, the reuse path touches the session
StoreAfterResolution(r, S, T, t) ==
  IF ~isStatefulMode \/ r.sid = NoSessionId THEN S
  ELSE IF resolveTransportForRequest(r, S, T, t).kind = "reuse"
       THEN GetOrCreate(AfterValidation(S, r.sid, t), r.sid,
                        extractSessionIdentity(r.auth), t)
       ELSE AfterValidation(S, r.sid, t)

\* createStatelessTransport built like a stateful transport (session id
\* generator and lifecycle callbacks)
createStatelessTransport_WithSessions ==
  [kind |-> "stateful", sessionId |-> NoSessionId, identity |-> Undefined,
   connects |-> 0, closed |-> FALSE]

\* createStatelessTransport / createStatefulTransport(identity)
createStatelessTransport ==
  [kind |-> "stateless", sessionId |-> NoSessionId, identity |-> Undefined,
   connects |-> 0, closed |-> FALSE]

\* createStatefulTransport dropping the caller's identity
createStatefulTransport_NoIdentity(identity) ==
  [kind |-> "stateful", sessionId |-> NoSessionId, identity |-> Undefined,
   connects |-> 0, closed |-> FALSE]

createStatefulTransport(identity) ==
  [kind |-> "stateful", sessionId |-> NoSessionId, identity |-> identity,
   connects |-> 0, closed |-> FALSE]

\* ---------------------------------------------------------------- actions
Init ==
  /\ isStatefulMode \in BOOLEAN
  /\ idGen = "secure"
  /\ now = 0
  /\ sessionStore = [id \in SessionIds |-> NoSession]
  /\ sessionTransports = [id \in SessionIds |-> NoTransport]
  /\ transports = [t \in TransportIds |-> NoTransportRec]
  /\ nextSessionId = 1
  /\ terminated = {}
  /\ req = [i \in Slots |-> Idle]
  /\ last = NoResponse
  /\ BehindPipeline
  /\ UnitsIdle
  /\ ServerListening
  /\ ProcessRunning

\* Memory: a transport that neither a request in flight nor the registry
\* refers to, and that is closed or never got a session id, is unreachable:
\* no request and no callback can act on it again.  A closed one is kept as
\* a tombstone of its kind, and the place of an unreachable one is taken by
\* the next transport built
Tombstone(kind) == [NoTransportRec EXCEPT !.kind = kind, !.closed = TRUE]

Unreachable(tr) == tr.closed \/ tr.sessionId = NoSessionId

Referenced(t, R, T) ==
  (\E i \in Slots : R[i].pc # "idle" /\ R[i].transport = t) \/ (\E id \in SessionIds : T[id] = t)

Collect(TT, R, T) ==
  [t \in TransportIds |->
     IF TT[t].kind # "none" /\ Unreachable(TT[t]) /\ ~Referenced(t, R, T)
     THEN IF TT[t].closed THEN Tombstone(TT[t].kind) ELSE NoTransportRec
     ELSE TT[t]]

FreeTransports ==
  { t \in TransportIds : transports[t].kind = "none" \/
      (Unreachable(transports[t]) /\ ~Referenced(t, req, sessionTransports)) }

NewTransport == CHOOSE t \in FreeTransports : \A u \in FreeTransports : t <= u

\* a request leaves the handler with the given response; sid is the session
\* id it presented when resolveTransportForRequest answered it (NoSessionId
\* when the answer came from elsewhere)
Complete(i, sid, status, error) ==
  /\ last' = [sid |-> sid, status |-> status, error |-> error]
  /\ req' = [req EXCEPT ![i] = Idle]

\* the requests a client can send: method, mcp-session-id header, auth
\* context and body
RequestsOf(Sids, Auths) ==
  { [method |-> m, sid |-> sid, auth |-> a, body |-> b] :
      m \in Methods, sid \in Sids, a \in Auths, b \in Bodies \cup {"none"} }
  \ { r \in [method : Methods, sid : Sids, auth : Auths, body : Bodies \cup {"none"}] :
        (r.method = "POST") = (r.body = "none") }

Requests == RequestsOf({NoSessionId} \cup SessionIds, AuthInfos)

\* a handler that hands every body to resolveTransportForRequest
BodyRejected_Never(r) == FALSE

\* parsedBody = await c.req.json(): only a POST has its body parsed, and a
\* body that is not JSON is answered with 400
BodyRejected(r) == r.method = "POST" /\ r.body = "invalid"

\* app.onError(httpErrorHandler): the response to a request whose handler
\* threw
httpErrorHandler == [status |-> 500, error |-> "Internal Server Error"]

\* handleRpc without the close of the stateless transport
Finish_NoClose(i, q, TT, T, status, failed) ==
  /\ transports' = Collect(TT, [req EXCEPT ![i] = Idle], T)
  /\ IF failed
     THEN Complete(i, NoSessionId, httpErrorHandler.status, httpErrorHandler.error)
     ELSE Complete(i, NoSessionId, status, "")

\* handleRpc whose error is not turned into a response: the request that
\* threw stays unanswered
Finish_FaultUnanswered(i, q, TT, T, status, failed) ==
  /\ transports' = Collect(IF ~isStatefulMode
                           THEN [TT EXCEPT ![q.transport].closed = TRUE]
                           ELSE TT,
                           IF failed THEN req ELSE [req EXCEPT ![i] = Idle], T)
  /\ IF failed
     THEN UNCHANGED <<req, last>>
     ELSE Complete(i, NoSessionId, status, "")

\* the finally block of handleRpc and its return, for request q in slot i
\* and the transports TT and registry T that result: a stateless transport
\* is closed (a rejected close() is caught and logged), then the request is
\* answered; a request that threw is answered by app.onError
Finish(i, q, TT, T, status, failed) ==
  /\ transports' = Collect(IF ~isStatefulMode
                           THEN [TT EXCEPT ![q.transport].closed = TRUE]
                           ELSE TT,
                           [req EXCEPT ![i] = Idle], T)
  /\ IF failed
     THEN Complete(i, NoSessionId, httpErrorHandler.status, httpErrorHandler.error)
     ELSE Complete(i, NoSessionId, status, "")

\* handleRpc with the transport built before the request is resolved
handleRpc_BuildsFirst(i, r) ==
  LET res == resolveTransportForRequest(r, sessionStore, sessionTransports, now)
      identity == extractSessionIdentity(r.auth)
      built == IF isStatefulMode THEN createStatefulTransport(identity)
               ELSE createStatelessTransport
      q == [pc |-> "handle", method |-> r.method, body |-> r.body,
            transport |-> IF res.created THEN NewTransport ELSE res.transport]
  IN /\ sessionStore' = StoreAfterResolution(r, sessionStore, sessionTransports, now)
     /\ CASE res.kind = "response" ->
               /\ Complete(i, r.sid, res.status, res.error)
               /\ transports' = IF FreeTransports # {}
                                THEN [transports EXCEPT ![NewTransport] = built]
                                ELSE transports
          [] res.kind = "reuse" ->
               /\ req' = [req EXCEPT ![i] = q]
               /\ UNCHANGED <<transports, last>>
          [] res.kind = "create" ->
               /\ FreeTransports # {}
               /\ \E connectThrows \in BOOLEAN :
                    IF connectThrows
                    THEN Finish(i, q, [transports EXCEPT ![NewTransport] = built],
                                sessionTransports, 0, TRUE)
                    ELSE /\ transports' = [transports EXCEPT ![NewTransport] =
                                             [built EXCEPT !.connects = @ + 1]]
                         /\ req' = [req EXCEPT ![i] = q]
                         /\ UNCHANGED last

\* handleRpc that connects the server to every transport it hands a
\* request to
handleRpc_ConnectsOnReuse(i, r) ==
  LET res == resolveTransportForRequest(r, sessionStore, sessionTransports, now)
      identity == extractSessionIdentity(r.auth)
      built == IF isStatefulMode THEN createStatefulTransport(identity)
               ELSE createStatelessTransport
      q == [pc |-> "handle", method |-> r.method, body |-> r.body,
            transport |-> IF res.created THEN NewTransport ELSE res.transport]
  IN /\ sessionStore' = StoreAfterResolution(r, sessionStore, sessionTransports, now)
     /\ CASE res.kind = "response" ->
               /\ Complete(i, r.sid, res.status, res.error)
               /\ UNCHANGED transports
          [] res.kind = "reuse" ->
               /\ req' = [req EXCEPT ![i] = q]
               /\ transports' = [transports EXCEPT ![res.transport].connects = @ + 1]
               /\ UNCHANGED last
          [] res.kind = "create" ->
               /\ FreeTransports # {}
               /\ \E connectThrows \in BOOLEAN :
                    IF connectThrows
                    THEN Finish(i, q, [transports EXCEPT ![NewTransport] = built],
                                sessionTransports, 0, TRUE)
                    ELSE /\ transports' = [transports EXCEPT ![NewTransport] =
                                             [built EXCEPT !.connects = @ + 1]]
                         /\ req' = [req EXCEPT ![i] = q]
                         /\ UNCHANGED last

\* the endpoint handler from the arrival of request r in slot i to its first
\* suspension that other requests can observe: the body is parsed,
\* resolveTransportForRequest runs, and either the rejection is returned or
\* the transport is taken; a transport this request created is connected
\* (await mcpServer.connect(transport)) while no other request can reach it,
\* and when connect throws, handleRequest is skipped and finally runs.
\* (Nothing before resolveTransportForRequest reads or writes shared state.)
handleRpc(i, r) ==
  LET res == resolveTransportForRequest(r, sessionStore, sessionTransports, now)
      identity == extractSessionIdentity(r.auth)
      built == IF isStatefulMode THEN createStatefulTransport(identity)
               ELSE createStatelessTransport
      q == [pc |-> "handle", method |-> r.method, body |-> r.body,
            transport |-> IF res.created THEN NewTransport ELSE res.transport]
  IN /\ sessionStore' = StoreAfterResolution(r, sessionStore, sessionTransports, now)
     /\ CASE res.kind = "response" ->
               /\ Complete(i, r.sid, res.status, res.error)
               /\ UNCHANGED transports
          [] res.kind = "reuse" ->
               /\ req' = [req EXCEPT ![i] = q]
               /\ UNCHANGED <<transports, last>>
          [] res.kind = "create" ->
               /\ FreeTransports # {}
               /\ \E connectThrows \in BOOLEAN :
                    IF connectThrows
                    THEN Finish(i, q, [transports EXCEPT ![NewTransport] = built],
                                sessionTransports, 0, TRUE)
                    ELSE /\ transports' = [transports EXCEPT ![NewTransport] =
                                             [built EXCEPT !.connects = @ + 1]]
                         /\ req' = [req EXCEPT ![i] = q]
                         /\ UNCHANGED last

\* an endpoint that takes a request only while no other request is inside
\* the handler
Endpoint_Serial(i, RS) ==
  /\ \A j \in Slots : req[j].pc = "idle"
  /\ i = 1
  /\ \E r \in RS :
       IF BodyRejected(r)
       THEN /\ Complete(i, NoSessionId, 400, "Invalid JSON payload. Ensure the body is valid JSON.")
            /\ UNCHANGED <<sessionStore, transports>>
       ELSE handleRpc(i, r)
  /\ UNCHANGED <<isStatefulMode, idGen, now, sessionTransports, nextSessionId, terminated>>

\* app.all(config.mcpHttpEndpointPath): a request drawn from RS is handled
\* in the free slot i
Endpoint(i, RS) ==
  /\ req[i].pc = "idle"
  /\ \A j \in Slots : req[j].pc = "idle" => i <= j
  /\ \E r \in RS :
       IF BodyRejected(r)
       THEN /\ Complete(i, NoSessionId, 400, "Invalid JSON payload. Ensure the body is valid JSON.")
            /\ UNCHANGED <<sessionStore, transports>>
       ELSE handleRpc(i, r)
  /\ UNCHANGED <<isStatefulMode, idGen, now, sessionTransports, nextSessionId, terminated>>

McpEndpoint(i) ==
  /\ Endpoint(i, Requests)
  /\ UNCHANGED <<pipelineVars, launcherVars, processVars, startVars, unitVars>>

\* -------------------------------------------------------- engine callbacks
\* onsessioninitialized without sessionStore.getOrCreate
onsessioninitialized_RegistryOnly(T, S, sessionId, transport, identity, t) ==
  [registry |-> [T EXCEPT ![sessionId] = transport], store |-> S]

\* onsessionclosed without sessionStore.terminate
onsessionclosed_RegistryOnly(T, S, sessionId) ==
  IF sessionId # NoSessionId
  THEN [registry |-> [T EXCEPT ![sessionId] = NoTransport], store |-> S]
  ELSE [registry |-> T, store |-> S]

\* onsessioninitialized(sessionId) of the transport built by
\* createStatefulTransport(identity)
onsessioninitialized(T, S, sessionId, transport, identity, t) ==
  [registry |-> [T EXCEPT ![sessionId] = transport],
   store |-> GetOrCreate(S, sessionId, identity, t)]

\* onsessionclosed(sessionId)
onsessionclosed(T, S, sessionId) ==
  IF sessionId # NoSessionId
  THEN [registry |-> [T EXCEPT ![sessionId] = NoTransport],
        store |-> Terminate(S, sessionId)]
  ELSE [registry |-> T, store |-> S]

\* transport.handleRequest on an initialize POST handed to a transport that
\* has a session id generator and is not initialized: the engine assigns
\* the session id and awaits onsessioninitialized
EngineInitialize(i) ==
  LET t == req[i].transport IN
  /\ req[i].pc = "handle"
  /\ req[i].method = "POST"
  /\ req[i].body = "init"
  /\ transports[t].kind = "stateful"
  /\ transports[t].sessionId = NoSessionId
  /\ CanGenerate
  /\ LET cb == onsessioninitialized(sessionTransports, sessionStore, GeneratedId,
                                    t, transports[t].identity, now)
     IN /\ sessionTransports' = cb.registry
        /\ sessionStore' = cb.store
        /\ Finish(i, req[i], [transports EXCEPT ![t].sessionId = GeneratedId], cb.registry,
                  200, FALSE)
  /\ nextSessionId' = IF idGen = "secure" THEN nextSessionId + 1 ELSE nextSessionId
  /\ UNCHANGED <<isStatefulMode, idGen, now, terminated>>
  /\ UNCHANGED <<pipelineVars, launcherVars, processVars, startVars, unitVars>>

\* transport.handleRequest on a DELETE for the transport's own session: the
\* engine awaits onsessionclosed and closes the transport
EngineDelete(i) ==
  LET t == req[i].transport IN
  /\ req[i].pc = "handle"
  /\ req[i].method = "DELETE"
  /\ transports[t].kind = "stateful"
  /\ transports[t].sessionId # NoSessionId
  /\ LET cb == onsessionclosed(sessionTransports, sessionStore, transports[t].sessionId)
     IN /\ sessionTransports' = cb.registry
        /\ sessionStore' = cb.store
        /\ Finish(i, req[i], [transports EXCEPT ![t].closed = TRUE], cb.registry, 200, FALSE)
  /\ terminated' = terminated \cup {transports[t].sessionId}
  /\ UNCHANGED <<isStatefulMode, idGen, now, nextSessionId>>
  /\ UNCHANGED <<pipelineVars, launcherVars, processVars, startVars, unitVars>>

\* transport.handleRequest answers the request itself (a result, an event
\* stream or one of its own rejections; 200 stands for all of them) without
\* a lifecycle callback
EngineServe(i) ==
  /\ req[i].pc = "handle"
  /\ Finish(i, req[i], transports, sessionTransports, 200, FALSE)
  /\ UNCHANGED <<isStatefulMode, idGen, now, sessionStore, sessionTransports,
                 nextSessionId, terminated>>
  /\ UNCHANGED <<pipelineVars, launcherVars, processVars, startVars, unitVars>>

\* transport.handleRequest throws
EngineThrows(i) ==
  /\ req[i].pc = "handle"
  /\ Finish(i, req[i], transports, sessionTransports, 0, TRUE)
  /\ UNCHANGED <<isStatefulMode, idGen, now, sessionStore, sessionTransports,
                 nextSessionId, terminated>>
  /\ UNCHANGED <<pipelineVars, launcherVars, processVars, startVars, unitVars>>

\* the engine signals closure of a session on its own
EngineSignalsClosure(t) ==
  /\ transports[t].kind = "stateful"
  /\ transports[t].sessionId # NoSessionId
  /\ ~transports[t].closed
  /\ LET cb == onsessionclosed(sessionTransports, sessionStore, transports[t].sessionId)
     IN /\ sessionTransports' = cb.registry
        /\ sessionStore' = cb.store
        /\ transports' = Collect([transports EXCEPT ![t].closed = TRUE], req, cb.registry)
  /\ terminated' = terminated \cup {transports[t].sessionId}
  /\ UNCHANGED <<isStatefulMode, idGen, now, nextSessionId, req, last>>
  /\ UNCHANGED <<pipelineVars, launcherVars, processVars, startVars, unitVars>>

\* a millisecond passes
Tick ==
  /\ now < MaxTime
  /\ now' = now + 1
  /\ UNCHANGED <<isStatefulMode, idGen, sessionStore, sessionTransports, transports,
                 nextSessionId, terminated, req, last>>
  /\ UNCHANGED <<pipelineVars, launcherVars, processVars, startVars, unitVars>>

Next ==
  \/ \E i \in Slots : McpEndpoint(i)
  \/ \E i \in Slots : EngineInitialize(i)
  \/ \E i \in Slots : EngineDelete(i)
  \/ \E i \in Slots : EngineServe(i)
  \/ \E i \in Slots : EngineThrows(i)
  \/ \E t \in TransportIds : EngineSignalsClosure(t)
  \/ Tick

Spec == Init /\ [][Next]_vars

\* the gateway with the session id generator forced to return one id (the
\* deterministic generator of test mode)
InitCollision ==
  /\ isStatefulMode \in BOOLEAN
  /\ idGen = "deterministic"
  /\ now = 0
  /\ sessionStore = [id \in SessionIds |-> NoSession]
  /\ sessionTransports = [id \in SessionIds |-> NoTransport]
  /\ transports = [t \in TransportIds |-> NoTransportRec]
  /\ nextSessionId = 1
  /\ terminated = {}
  /\ req = [i \in Slots |-> Idle]
  /\ last = NoResponse
  /\ BehindPipeline
  /\ UnitsIdle
  /\ ServerListening
  /\ ProcessRunning

SpecCollision == InitCollision /\ [][Next]_vars

\* Identity binding, over every combination of claims: session 1 has just
\* been initialized by a caller with authInfo a (the state EngineInitialize
\* leaves), and requests with any authInfo present its id
ClaimValues == {"", "x", "y"}

AllAuthInfos ==
  {NoAuth} \cup { AuthInfoOf(t, c, s) : t \in ClaimValues, c \in ClaimValues, s \in ClaimValues }

InitIdentity ==
  /\ isStatefulMode = TRUE
  /\ idGen = "secure"
  /\ now = 0
  /\ \E a \in AllAuthInfos :
       LET identity == extractSessionIdentity(a)
           cb == onsessioninitialized([id \in SessionIds |-> NoTransport],
                                      [id \in SessionIds |-> NoSession],
                                      1, 1, identity, 0)
       IN /\ sessionStore = cb.store
          /\ sessionTransports = cb.registry
          /\ transports = [t \in TransportIds |->
                             IF t = 1
                             THEN [createStatefulTransport(identity) EXCEPT
                                     !.connects = 1, !.sessionId = 1]
                             ELSE NoTransportRec]
  /\ nextSessionId = 2
  /\ terminated = {}
  /\ req = [i \in Slots |-> Idle]
  /\ last = NoResponse
  /\ BehindPipeline
  /\ UnitsIdle
  /\ ServerListening
  /\ ProcessRunning

IdentityProbe(i) ==
  /\ Endpoint(i, RequestsOf({1}, AllAuthInfos))
  /\ UNCHANGED <<pipelineVars, launcherVars, processVars, startVars, unitVars>>

NextIdentity ==
  \/ \E i \in Slots : IdentityProbe(i)
  \/ \E i \in Slots : EngineServe(i)
  \/ Tick

SpecIdentity == InitIdentity /\ [][NextIdentity]_vars

\* The inconsistent state the registry lookup of resolveTransportForRequest
\* guards against: the Session Store holds a record for session 1, created
\* by a caller with authInfo a, and the Transport Registry holds no
\* transport for it; requests with any authInfo present that id
InitOrphanRecord ==
  /\ isStatefulMode = TRUE
  /\ idGen = "secure"
  /\ now = 0
  /\ \E a \in AllAuthInfos :
       sessionStore = GetOrCreate([id \in SessionIds |-> NoSession], 1,
                                  extractSessionIdentity(a), 0)
  /\ sessionTransports = [id \in SessionIds |-> NoTransport]
  /\ transports = [t \in TransportIds |-> NoTransportRec]
  /\ nextSessionId = 2
  /\ terminated = {}
  /\ req = [i \in Slots |-> Idle]
  /\ last = NoResponse
  /\ BehindPipeline
  /\ UnitsIdle
  /\ ServerListening
  /\ ProcessRunning

NextOrphanRecord ==
  \/ \E i \in Slots : IdentityProbe(i)
  \/ Tick

SpecOrphanRecord == InitOrphanRecord /\ [][NextOrphanRecord]_vars

\* --------------------------------------------------------------- pipeline
\* The stages a request to the endpoint runs through before app.all, in the
\* order createHttpApp registers them: the Origin Guard, the server-info
\* handler of GET, the auth middleware (when a strategy is configured).

\* a header: absent, or sent with a value ("" is a header sent with no value)
NoHeader == [present |-> FALSE, value |-> ""]

HeaderOf(v) == [present |-> TRUE, value |-> v]

Origins == {NoHeader, HeaderOf(""), HeaderOf("http://a"), HeaderOf("http://b")}

AllowLists ==
  {NotConfigured, [configured |-> TRUE, list |-> {}],
   [configured |-> TRUE, list |-> {"http://a"}]}

\* the Accept header as the media types it lists, <<>> when absent
\* (c.req.header('accept') ?? '')
Accepts == {<<>>, <<"application/json">>, <<"application/json", "text/event-stream">>}

\* the Authorization header: none, or the token of subject u
Authorizations == {"none", "u"}

\* a value used as a condition: undefined and "" are falsy
Truthy(h) == h.present /\ h.value # ""

allowedOriginsList ==
  IF mcpAllowedOrigins.configured /\ mcpAllowedOrigins.list # {}
  THEN [defined |-> TRUE, list |-> mcpAllowedOrigins.list]
  ELSE [defined |-> FALSE, list |-> {}]

dnsProtectionEnabled == allowedOriginsList.defined /\ allowedOriginsList.list # {}

\* the Origin Guard: "reject" (403) or "next"
originGuard(origin) ==
  IF Truthy(origin) /\ dnsProtectionEnabled
  THEN LET isAllowed == ~allowedOriginsList.defined
                        \/ origin.value \in allowedOriginsList.list
       IN IF ~isAllowed THEN "reject" ELSE "next"
  ELSE "next"

\* the server-info handler without its Accept test: every GET is delegated
includesEventStream_Always(accept) == TRUE

\* acceptHeader.includes('text/event-stream')
includesEventStream(accept) == \E k \in 1..Len(accept) : accept[k] = "text/event-stream"

\* the auth middleware: a request with a valid token continues with its
\* authInfo in the auth context, any other is answered 401
authMiddleware(authorization) ==
  IF authorization = "none"
  THEN [ok |-> FALSE, authInfo |-> NoAuth]
  ELSE [ok |-> TRUE, authInfo |-> AuthInfoOf("a", "c", authorization)]

Answer(stages, status, error) ==
  [kind |-> "response", stages |-> stages, status |-> status, error |-> error,
   request |-> NoRequest]

Delegate(stages, r) ==
  [kind |-> "handler", stages |-> stages, status |-> 0, error |-> "", request |-> r]

\* what app.all reads of the request: authContext.getStore()?.authInfo is
\* undefined when no auth middleware ran
Delegated(raw) ==
  [method |-> raw.method, sid |-> raw.sid,
   auth |-> IF authStrategy THEN authMiddleware(raw.authorization).authInfo ELSE NoAuth,
   body |-> raw.body]

\* the pipeline with an Origin Guard that answers 403 and calls next()
\* all the same
HttpPipeline_GuardDoesNotStop(raw) ==
  LET info == IF raw.method = "GET" THEN <<"serverInfo">> ELSE <<>>
      auth == IF authStrategy THEN <<"auth">> ELSE <<>>
  IN IF raw.method = "GET" /\ ~includesEventStream(raw.accept)
     THEN Answer(<<"originGuard">> \o info, 200, "")
     ELSE IF authStrategy /\ ~authMiddleware(raw.authorization).ok
     THEN Answer(<<"originGuard">> \o info \o auth, 401, "Unauthorized")
     ELSE Delegate(<<"originGuard">> \o info \o auth \o <<"handler">>, Delegated(raw))

\* the pipeline with the auth middleware registered after app.all
HttpPipeline_HandlerBeforeAuth(raw) ==
  LET info == IF raw.method = "GET" THEN <<"serverInfo">> ELSE <<>>
  IN IF originGuard(raw.origin) = "reject"
     THEN Answer(<<"originGuard">>, 403, "Invalid origin. DNS rebinding protection.")
     ELSE IF raw.method = "GET" /\ ~includesEventStream(raw.accept)
     THEN Answer(<<"originGuard">> \o info, 200, "")
     ELSE Delegate(<<"originGuard">> \o info \o <<"handler">>, Delegated(raw))

\* the stages request raw runs through and where they leave it: answered by
\* a stage, or handed to app.all
HttpPipeline(raw) ==
  LET info == IF raw.method = "GET" THEN <<"serverInfo">> ELSE <<>>
      auth == IF authStrategy THEN <<"auth">> ELSE <<>>
  IN IF originGuard(raw.origin) = "reject"
     THEN Answer(<<"originGuard">>, 403, "Invalid origin. DNS rebinding protection.")
     ELSE IF raw.method = "GET" /\ ~includesEventStream(raw.accept)
     THEN Answer(<<"originGuard">> \o info, 200, "")
     ELSE IF authStrategy /\ ~authMiddleware(raw.authorization).ok
     THEN Answer(<<"originGuard">> \o info \o auth, 401, "Unauthorized")
     ELSE Delegate(<<"originGuard">> \o info \o auth \o <<"handler">>, Delegated(raw))

\* the requests a client can send to the endpoint; only a GET has its
\* Accept header read
RawRequests ==
  { raw \in [method : Methods, origin : Origins, accept : Accepts,
             authorization : Authorizations, sid : {NoSessionId} \cup SessionIds,
             body : Bodies \cup {"none"}] :
      /\ (raw.method = "POST") # (raw.body = "none")
      /\ raw.method # "GET" => raw.accept = <<>> }

\* a request drawn from RS arrives and runs through the stages in the free
\* slot i
Pipeline(i, RS) ==
  /\ req[i].pc = "idle"
  /\ \A j \in Slots : req[j].pc = "idle" => i <= j
  /\ \E raw \in RS :
       LET p == HttpPipeline(raw) IN
       /\ trail' = p.stages
       /\ IF p.kind = "response"
          THEN /\ Complete(i, NoSessionId, p.status, p.error)
               /\ UNCHANGED <<isStatefulMode, idGen, now, sessionStore, sessionTransports,
                              transports, nextSessionId, terminated>>
          ELSE Endpoint(i, {p.request})
  /\ UNCHANGED <<mcpAllowedOrigins, authStrategy, launcherVars, processVars, startVars, unitVars>>

HttpRequest(i) == Pipeline(i, RawRequests)

InitPipeline ==
  /\ isStatefulMode \in BOOLEAN
  /\ idGen = "secure"
  /\ now = 0
  /\ sessionStore = [id \in SessionIds |-> NoSession]
  /\ sessionTransports = [id \in SessionIds |-> NoTransport]
  /\ transports = [t \in TransportIds |-> NoTransportRec]
  /\ nextSessionId = 1
  /\ terminated = {}
  /\ req = [i \in Slots |-> Idle]
  /\ last = NoResponse
  /\ mcpAllowedOrigins \in AllowLists
  /\ authStrategy \in BOOLEAN
  /\ trail = <<>>
  /\ ServerListening
  /\ ProcessRunning
  /\ UnitsIdle

\* the pipeline takes one request at a time: its stages share no state, and
\* the handler that follows them is the one the gateway specifications run
\* concurrently
NextPipeline ==
  \/ HttpRequest(1)
  \/ EngineInitialize(1)
  \/ EngineServe(1)
  \/ Tick

SpecPipeline == InitPipeline /\ [][NextPipeline]_vars

\* --------------------------------------------------------------- launcher
\* startHttpServerWithRetry: a promise that tryBind settles.

\* the gateway before its first request
GatewayEmpty ==
  /\ idGen = "secure"
  /\ now = 0
  /\ sessionStore = [id \in SessionIds |-> NoSession]
  /\ sessionTransports = [id \in SessionIds |-> NoTransport]
  /\ transports = [t \in TransportIds |-> NoTransportRec]
  /\ nextSessionId = 1
  /\ terminated = {}
  /\ req = [i \in Slots |-> Idle]
  /\ last = NoResponse

\* config.mcpHttpMaxPortRetries ranges over 0..MaxRetries
MaxRetries == 3

\* the ports the launcher can reach
Ports == InitialPort..(InitialPort + MaxRetries)

\* what a listen() on a port meets: "free" (the probe and the server both
\* bind), "inUse" (the probe fails with EADDRINUSE), "raced" (the probe
\* binds, or fails with another code, and the bind of the server fails:
\* another process took the port in between, or binding is not permitted)
PortStatuses == {"free", "inUse", "raced"}

\* isPortInUse: resolve(err.code === 'EADDRINUSE') on 'error',
\* resolve(false) on 'listening'
isPortInUse(status) == status = "inUse"

\* a launcher that gives up one attempt early
Exhausted_OneEarly(attempt) == attempt > maxRetries

\* tryBind: if (attempt > maxRetries + 1)
Exhausted(attempt) == attempt > maxRetries + 1

\* tryBind(port, attempt) up to its await: reject, or call isPortInUse
tryBind(port, attempt) ==
  IF Exhausted(attempt)
  THEN /\ settled' = Append(settled, [kind |-> "reject", port |-> NoPort])
       /\ binder' = [pc |-> "done", port |-> port, attempt |-> attempt]
       /\ UNCHANGED probed
  ELSE /\ probed' = Append(probed, port)
       /\ binder' = [pc |-> "probe", port |-> port, attempt |-> attempt]
       /\ UNCHANGED settled

\* new Promise(...): tryBind(initialPort, 1)
StartHttpServerWithRetry ==
  /\ binder.pc = "start"
  /\ tryBind(InitialPort, 1)
  /\ UNCHANGED <<portStatus, maxRetries, listening, gatewayVars, pipelineVars, processVars,
                 startVars, unitVars>>

\* isPortInUse(...).then: a port in use schedules the next attempt; on any
\* other port serve() is called, and the promise is resolved with the
\* server it returns; a serve() that throws schedules the next attempt.
\* serve() returns before the server's listen() has bound the port
ProbeSettles ==
  /\ binder.pc = "probe"
  /\ IF isPortInUse(portStatus[binder.port])
     THEN /\ binder' = [binder EXCEPT !.pc = "delay"]
          /\ UNCHANGED settled
     ELSE \E serveThrows \in { b \in BOOLEAN : b => portStatus[binder.port] # "free" } :
            IF serveThrows
            THEN /\ binder' = [binder EXCEPT !.pc = "delay"]
                 /\ UNCHANGED settled
            ELSE /\ settled' = Append(settled, [kind |-> "resolve", port |-> binder.port])
                 /\ binder' = [binder EXCEPT !.pc = "listen"]
  /\ UNCHANGED <<portStatus, maxRetries, probed, listening, gatewayVars, pipelineVars,
                 processVars, startVars, unitVars>>

\* setTimeout(() => tryBind(port + 1, attempt + 1), config.mcpHttpPortRetryDelayMs)
RetryTimer ==
  /\ binder.pc = "delay"
  /\ tryBind(binder.port + 1, binder.attempt + 1)
  /\ UNCHANGED <<portStatus, maxRetries, listening, gatewayVars, pipelineVars, processVars,
                 startVars, unitVars>>

\* the listen() of the server that serve() returned settles: the listening
\* callback runs, or the server emits 'error'
ListenSettles ==
  /\ binder.pc = "listen"
  /\ IF portStatus[binder.port] = "free"
     THEN /\ listening' = binder.port
          /\ binder' = [binder EXCEPT !.pc = "done"]
     ELSE /\ binder' = [binder EXCEPT !.pc = "failed"]
          /\ UNCHANGED listening
  /\ UNCHANGED <<portStatus, maxRetries, probed, settled, gatewayVars, pipelineVars,
                 processVars, startVars, unitVars>>

InitLauncher ==
  /\ isStatefulMode \in BOOLEAN
  /\ GatewayEmpty
  /\ BehindPipeline
  /\ UnitsIdle
  /\ portStatus \in [Ports -> PortStatuses]
  /\ maxRetries \in 0..MaxRetries
  /\ binder = [pc |-> "start", port |-> InitialPort, attempt |-> 1]
  /\ probed = <<>>
  /\ settled = <<>>
  /\ listening = NoPort
  /\ ProcessRunning

NextLauncher ==
  \/ StartHttpServerWithRetry
  \/ ProbeSettles
  \/ RetryTimer
  \/ ListenSettles

SpecLauncher == InitLauncher /\ [][NextLauncher]_vars

\* --------------------------------------------------------------- shutdown
\* shutdown(signal) of index.ts and the handlers start() registers for it.

\* calls of shutdown() in a run
MaxTriggers == 3

Signals == {"SIGTERM", "SIGINT", "uncaughtException", "unhandledRejection"}

\* process.exit(0) at the end of the try block, process.exit(1) at the end
\* of the catch block, without the difference
ExitCode_AlwaysZero(failed) == 0

ExitCode(failed) == IF failed THEN 1 ELSE 0

\* shutdown() from the flag to its first await: server.stop() when the
\* server is running, shutdownOpenTelemetry() otherwise
Proceed ==
  /\ isShuttingDown' = TRUE
  /\ IF serverRunning
     THEN /\ shutdownPc' = "stop"
          /\ performed' = Append(performed, "stop")
     ELSE /\ shutdownPc' = "telemetry"
          /\ performed' = Append(performed, "telemetry")
  /\ UNCHANGED <<serverRunning, raised, exits>>

\* shutdown without its isShuttingDown test
shutdown_NoGuard(signal) ==
  /\ Len(triggers) < MaxTriggers
  /\ signal \in handlers
  /\ shutdownPc # "exited"
  /\ triggers' = Append(triggers, signal)
  /\ Proceed
  /\ UNCHANGED <<gatewayVars, pipelineVars, launcherVars, startVars, unitVars>>

\* a registered handler calls shutdown(signal) while the process is alive
shutdown(signal) ==
  /\ Len(triggers) < MaxTriggers
  /\ signal \in handlers
  /\ shutdownPc # "exited"
  /\ triggers' = Append(triggers, signal)
  /\ IF isShuttingDown
     THEN UNCHANGED <<serverRunning, isShuttingDown, shutdownPc, performed, raised, exits>>
     ELSE Proceed
  /\ UNCHANGED <<gatewayVars, pipelineVars, launcherVars, startVars, unitVars>>

\* process.exit(code)
Exit(failed) ==
  /\ exits' = Append(exits, ExitCode(failed))
  /\ performed' = Append(performed, "exit")
  /\ shutdownPc' = "exited"

\* the catch block up to its await: the error is logged and logger.close()
\* is called
Catch(step) ==
  /\ raised' = Append(raised, step)
  /\ performed' = Append(performed, "close")
  /\ shutdownPc' = "lastClose"
  /\ UNCHANGED <<serverRunning, exits>>

\* await server.stop() settles
StopSettles ==
  /\ shutdownPc = "stop"
  /\ \E ok \in BOOLEAN :
       IF ok
       THEN /\ serverRunning' = FALSE
            /\ shutdownPc' = "telemetry"
            /\ performed' = Append(performed, "telemetry")
            /\ UNCHANGED <<raised, exits>>
       ELSE Catch("stop")
  /\ UNCHANGED <<isShuttingDown, triggers, gatewayVars, pipelineVars, launcherVars, startVars,
                 unitVars>>

\* await shutdownOpenTelemetry() settles
TelemetrySettles ==
  /\ shutdownPc = "telemetry"
  /\ \E ok \in BOOLEAN :
       IF ok
       THEN /\ shutdownPc' = "close"
            /\ performed' = Append(performed, "close")
            /\ UNCHANGED <<serverRunning, raised, exits>>
       ELSE Catch("telemetry")
  /\ UNCHANGED <<isShuttingDown, triggers, gatewayVars, pipelineVars, launcherVars, startVars,
                 unitVars>>

\* await logger.close() of the try block settles
CloseSettles ==
  /\ shutdownPc = "close"
  /\ \E ok \in BOOLEAN :
       IF ok
       THEN /\ Exit(FALSE)
            /\ UNCHANGED <<serverRunning, raised>>
       ELSE Catch("close")
  /\ UNCHANGED <<isShuttingDown, triggers, gatewayVars, pipelineVars, launcherVars, startVars,
                 unitVars>>

\* the catch block without the try around its logger.close(): an error of
\* that close leaves shutdown() before process.exit(1)
LastCloseSettles_ErrorEscapes ==
  /\ shutdownPc = "lastClose"
  /\ \E ok \in BOOLEAN :
       IF ok
       THEN /\ Exit(TRUE)
            /\ UNCHANGED raised
       ELSE /\ raised' = Append(raised, "lastClose")
            /\ shutdownPc' = "rejected"
            /\ UNCHANGED <<performed, exits>>
  /\ UNCHANGED <<serverRunning, isShuttingDown, triggers, gatewayVars, pipelineVars,
                 launcherVars, startVars, unitVars>>

\* await logger.close() of the catch block settles; its error is ignored
LastCloseSettles ==
  /\ shutdownPc = "lastClose"
  /\ \E ok \in BOOLEAN :
       /\ Exit(TRUE)
       /\ raised' = IF ok THEN raised ELSE Append(raised, "lastClose")
  /\ UNCHANGED <<serverRunning, isShuttingDown, triggers, gatewayVars, pipelineVars,
                 launcherVars, startVars, unitVars>>

InitShutdown ==
  /\ isStatefulMode \in BOOLEAN
  /\ GatewayEmpty
  /\ BehindPipeline
  /\ UnitsIdle
  /\ ServerListening
  /\ ProcessRunning

NextShutdown ==
  \/ \E signal \in Signals : shutdown(signal)
  \/ StopSettles
  \/ TelemetrySettles
  \/ CloseSettles
  \/ LastCloseSettles

SpecShutdown == InitShutdown /\ [][NextShutdown]_vars

\* every await of shutdown() settles: the promise it waits for is resolved
\* or rejected
SpecShutdownFair ==
  /\ SpecShutdown
  /\ WF_vars(StopSettles)
  /\ WF_vars(TelemetrySettles)
  /\ WF_vars(CloseSettles)
  /\ WF_vars(LastCloseSettles)

\* ---------------------------------------------------------------- startup
\* start() of index.ts: the configuration is resolved, telemetry and the
\* logger are initialized, the server is started, and only then the process
\* handlers are registered. With the HTTP transport the start of the server
\* is startHttpTransport, which awaits startHttpServerWithRetry.

\* process.exit(1) of start() and of the wrapper that calls it
StartExit ==
  /\ exits' = Append(exits, 1)
  /\ startPc' = "exited"

\* the four process.on(...) calls follow `await server.start()` in the try
\* block: they run when the start resolved
Registered(resolved) == IF resolved THEN Signals ELSE {}

\* composeContainer() and container.resolve(AppConfig); the catch block
\* awaits shutdownOpenTelemetry()
ResolveConfig ==
  /\ startPc = "config"
  /\ \E ok \in BOOLEAN :
       IF ok
       THEN /\ startPc' = "telemetry"
            /\ UNCHANGED startFailure
       ELSE /\ startPc' = "flush"
            /\ startFailure' = "config"
  /\ UNCHANGED <<handlers, gatewayVars, pipelineVars, launcherVars, processVars, unitVars>>

\* await initializeOpenTelemetry() settles: its error is printed and the
\* start goes on
InitializeTelemetrySettles ==
  /\ startPc = "telemetry"
  /\ \E ok \in BOOLEAN : startPc' = "logger"
  /\ UNCHANGED <<handlers, startFailure, gatewayVars, pipelineVars, launcherVars,
                 processVars, unitVars>>

\* await initializePerformance_Hrt() and await logger.initialize(...) are
\* outside every try block of start(): an error reaches the wrapper, which
\* calls process.exit(1)
LoggerInitializeSettles ==
  /\ startPc = "logger"
  /\ \E ok \in BOOLEAN :
       IF ok
       THEN /\ startPc' = "construct"
            /\ UNCHANGED <<startFailure, exits>>
       ELSE /\ startFailure' = "logger"
            /\ StartExit
  /\ UNCHANGED <<handlers, serverRunning, isShuttingDown, shutdownPc, triggers, performed,
                 raised, gatewayVars, pipelineVars, launcherVars, unitVars>>

\* new MCPServer(...) and the call of server.start(): an error thrown here
\* is a failure of the server start; otherwise the transport's launcher
\* begins
ServerStart ==
  /\ startPc = "construct"
  /\ \E ok \in BOOLEAN :
       IF ok
       THEN /\ startPc' = "server"
            /\ binder' = [binder EXCEPT !.pc = "start"]
            /\ UNCHANGED startFailure
       ELSE /\ startPc' = "flush"
            /\ startFailure' = "server"
            /\ UNCHANGED binder
  /\ UNCHANGED <<handlers, portStatus, maxRetries, probed, settled, listening, gatewayVars,
                 pipelineVars, processVars, unitVars>>

\* await server.start() settles as the launcher's promise did: resolved, the
\* handlers are registered and the process is running; rejected, the catch
\* block logs the error and awaits shutdownOpenTelemetry()
ServerStartSettles ==
  /\ startPc = "server"
  /\ Len(settled) > 0
  /\ LET resolved == settled[1].kind = "resolve"
     IN  /\ handlers' = Registered(resolved)
         /\ serverRunning' = resolved
         /\ startPc' = IF resolved THEN "running" ELSE "flush"
         /\ startFailure' = IF resolved THEN startFailure ELSE "ports"
  /\ UNCHANGED <<isShuttingDown, shutdownPc, triggers, performed, raised, exits,
                 gatewayVars, pipelineVars, launcherVars, unitVars>>

\* await shutdownOpenTelemetry() of a catch block of start() settles:
\* returned, process.exit(1) is the next statement; thrown, the error
\* reaches the wrapper, which calls process.exit(1)
FlushSettles ==
  /\ startPc = "flush"
  /\ \E ok \in BOOLEAN : StartExit
  /\ UNCHANGED <<handlers, startFailure, serverRunning, isShuttingDown, shutdownPc, triggers,
                 performed, raised, gatewayVars, pipelineVars, launcherVars, unitVars>>

\* the server that serve() returned emits 'error' when its listen() fails;
\* nothing listens for it, so it reaches the 'uncaughtException' handler,
\* once one is registered
ListenErrorUncaught ==
  /\ binder.pc = "failed"
  /\ triggers = <<>>
  /\ shutdown("uncaughtException")

InitStartup ==
  /\ isStatefulMode \in BOOLEAN
  /\ GatewayEmpty
  /\ BehindPipeline
  /\ UnitsIdle
  /\ portStatus \in [Ports -> PortStatuses]
  /\ maxRetries \in 0..MaxRetries
  /\ binder = [pc |-> "unstarted", port |-> InitialPort, attempt |-> 1]
  /\ probed = <<>>
  /\ settled = <<>>
  /\ listening = NoPort
  /\ startPc = "config"
  /\ handlers = {}
  /\ startFailure = "none"
  /\ serverRunning = FALSE
  /\ isShuttingDown = FALSE
  /\ shutdownPc = "none"
  /\ triggers = <<>>
  /\ performed = <<>>
  /\ raised = <<>>
  /\ exits = <<>>

NextStartup ==
  \/ ResolveConfig
  \/ InitializeTelemetrySettles
  \/ LoggerInitializeSettles
  \/ ServerStart
  \/ ServerStartSettles
  \/ FlushSettles
  \/ StartHttpServerWithRetry
  \/ ProbeSettles
  \/ RetryTimer
  \/ ListenSettles
  \/ ListenErrorUncaught
  \/ StopSettles
  \/ TelemetrySettles
  \/ CloseSettles
  \/ LastCloseSettles

SpecStartup == InitStartup /\ [][NextStartup]_vars

\* ---------------------------------------------------------- request faults
\* The endpoint on an app that is also called without the Node bindings of
\* the request (c.env.incoming, c.env.outgoing), one request at a time.

\* app.all: if (!nodeReq || !nodeRes) throw new Error('HTTP bindings not
\* available for MCP transport.'), before the body is read; app.onError
\* answers the request
MissingBindings(i) ==
  /\ req[i].pc = "idle"
  /\ \A j \in Slots : req[j].pc = "idle" => i <= j
  /\ Complete(i, NoSessionId, httpErrorHandler.status, httpErrorHandler.error)
  /\ UNCHANGED <<isStatefulMode, idGen, now, sessionStore, sessionTransports, transports,
                 nextSessionId, terminated>>
  /\ UNCHANGED <<pipelineVars, launcherVars, processVars, startVars, unitVars>>

NextFaults ==
  \/ McpEndpoint(1)
  \/ MissingBindings(1)
  \/ EngineInitialize(1)
  \/ EngineDelete(1)
  \/ EngineServe(1)
  \/ EngineThrows(1)
  \/ Tick

SpecFaults == Init /\ [][NextFaults]_vars

\* ------------------------------------------------ initialization payloads
\* isInitializationPayload on the values a parsed body can be.

\* isInitializationPayload(payload) is called and returns
Classify ==
  /\ initVerdict = <<>>
  /\ initVerdict' = <<isInitializationPayload(payload)>>
  /\ UNCHANGED <<payload, serverVars, handoff, getStudy, fetchAll>>

\* the next body is parsed
NextBody ==
  /\ initVerdict # <<>>
  /\ payload' \in Payloads
  /\ initVerdict' = <<>>
  /\ UNCHANGED <<serverVars, handoff, getStudy, fetchAll>>

InitPayload ==
  /\ isStatefulMode \in BOOLEAN
  /\ GatewayEmpty
  /\ BehindPipeline
  /\ ServerListening
  /\ ProcessRunning
  /\ payload \in Payloads
  /\ initVerdict = <<>>
  /\ handoff = NoHandoff
  /\ getStudy = NoGetStudy
  /\ fetchAll = NoFetchAll

NextPayload == Classify \/ NextBody

SpecPayload == InitPayload /\ [][NextPayload]_vars

\* ------------------------------------------------------------ auth handoff
\* handleRpc between the resolution and handleRequest: the auth info of the
\* request's auth context is put on the Node request that the transport is
\* handed.

\* requests handed to a transport in a run
MaxHandoffs == 2

\* authContext.getStore(): no store (no auth middleware ran), a store
\* without authInfo, or a store with the caller's authInfo
AuthStores ==
  { [store |-> FALSE, authInfo |-> NoAuth] }
  \cup { [store |-> TRUE, authInfo |-> a] : a \in AuthInfos }

\* the assignment without the else branch: what the request object carried
\* stays on it
attachAuth_KeepsPrevious(nodeReqAuth, authStore) ==
  IF authStore.store /\ authStore.authInfo.present
  THEN authStore.authInfo
  ELSE nodeReqAuth

\* if (authStore?.authInfo) { nodeReq.auth = authStore.authInfo } else
\* { delete nodeReq.auth }: the value of nodeReq.auth afterwards (NoAuth:
\* the property is absent)
attachAuth(nodeReqAuth, authStore) ==
  IF authStore.store /\ authStore.authInfo.present
  THEN authStore.authInfo
  ELSE NoAuth

\* a request arrives at handleRpc with a transport: its Node request may
\* carry an auth property already, and its auth context is what the
\* middleware left
RequestResolved ==
  /\ handoff.pc \in {"none", "handed"}
  /\ Len(handoff.handed) < MaxHandoffs
  /\ \E before \in AuthInfos, authStore \in AuthStores :
       handoff' = [handoff EXCEPT !.pc = "resolved", !.before = before, !.auth = before,
                                  !.authStore = authStore]
  /\ UNCHANGED <<serverVars, payloadVars, getStudy, fetchAll>>

\* the auth info is attached or removed and transport.handleRequest(nodeReq,
\* nodeRes, parsedBody) is called
HandRequest ==
  /\ handoff.pc = "resolved"
  /\ LET auth == attachAuth(handoff.auth, handoff.authStore)
     IN handoff' = [handoff EXCEPT !.pc = "handed", !.auth = auth,
                                   !.handed = Append(@, auth)]
  /\ UNCHANGED <<serverVars, payloadVars, getStudy, fetchAll>>

InitHandoff ==
  /\ isStatefulMode \in BOOLEAN
  /\ GatewayEmpty
  /\ BehindPipeline
  /\ ServerListening
  /\ ProcessRunning
  /\ payload = Absent
  /\ initVerdict = <<>>
  /\ handoff = NoHandoff
  /\ getStudy = NoGetStudy
  /\ fetchAll = NoFetchAll

NextHandoff == RequestResolved \/ HandRequest

SpecHandoff == InitHandoff /\ [][NextHandoff]_vars

\* --------------------------------------------------------- get-study tool
\* ClinicalTrialsGetStudyTool.runTool: the studies are fetched by one async
\* function per requested id, all started before the first await settles,
\* and Promise.all waits for them.

\* ids in one request (the input schema allows 1 to 5)
MaxIds == 3

NctIds == {"NCT00000001", "NCT00000002"}

\* input.nctIds as an array: one id or several, the same id more than once
\* included
NctIdLists == UNION { [1..n -> NctIds] : n \in 1..MaxIds }

NoResult == [kind |-> "none", studies |-> <<>>, hasErrors |-> FALSE, errors |-> <<>>]

\* the end of runTool raising as soon as one id failed
Outcome_RaisesOnAnyError(studies, errors) ==
  IF Len(errors) > 0
  THEN [kind |-> "ServiceUnavailable", studies |-> <<>>, hasErrors |-> TRUE,
        errors |-> errors]
  ELSE [kind |-> "returned", studies |-> studies, hasErrors |-> FALSE, errors |-> <<>>]

\* the end of runTool: McpError(ServiceUnavailable) with the errors when
\* studies is empty and errors is not; otherwise { studies }, with the
\* property errors only when there are any
Outcome(studies, errors) ==
  IF Len(studies) = 0 /\ Len(errors) > 0
  THEN [kind |-> "ServiceUnavailable", studies |-> <<>>, hasErrors |-> TRUE,
        errors |-> errors]
  ELSE [kind |-> "returned", studies |-> studies, hasErrors |-> Len(errors) > 0,
        errors |-> IF Len(errors) > 0 THEN errors ELSE <<>>]

\* the await provider.fetchStudy(nctId, context) of element k settles: the
\* study (or its summary) is pushed to studies, or the catch block pushes
\* the id and the message to errors
FetchSettles(k) ==
  /\ getStudy.pc = "fetching"
  /\ k \in getStudy.pending
  /\ \E ok \in BOOLEAN :
       getStudy' =
         [getStudy EXCEPT
            !.pending = @ \ {k},
            !.studies = IF ok THEN Append(@, getStudy.nctIds[k]) ELSE @,
            !.errors = IF ok THEN @ ELSE Append(@, getStudy.nctIds[k])]
  /\ UNCHANGED <<serverVars, payloadVars, handoff, fetchAll>>

\* Promise.all has resolved: runTool throws or returns
AllSettled ==
  /\ getStudy.pc = "fetching"
  /\ getStudy.pending = {}
  /\ getStudy' = [getStudy EXCEPT !.pc = "done",
                                  !.result = Outcome(getStudy.studies, getStudy.errors)]
  /\ UNCHANGED <<serverVars, payloadVars, handoff, fetchAll>>

InitGetStudy ==
  /\ isStatefulMode \in BOOLEAN
  /\ GatewayEmpty
  /\ BehindPipeline
  /\ ServerListening
  /\ ProcessRunning
  /\ payload = Absent
  /\ initVerdict = <<>>
  /\ handoff = NoHandoff
  /\ \E ids \in NctIdLists :
       getStudy = [pc |-> "fetching", nctIds |-> ids, pending |-> 1..Len(ids),
                   studies |-> <<>>, errors |-> <<>>, result |-> NoResult]
  /\ fetchAll = NoFetchAll

NextGetStudy ==
  \/ \E k \in 1..MaxIds : FetchSettles(k)
  \/ AllSettled

SpecGetStudy == InitGetStudy /\ [][NextGetStudy]_vars

\* -------------------------------------------------------- fetchAllStudies
\* fetchAllStudies of the trend analysis tool: one listStudies call with
\* pageSize 1 for the total, then the paging loop with pageSize 1000.
\* allStudies is kept as the number of studies accumulated.

\* the largest totalCount the provider reports
MaxTotal == 4

\* the largest config.maxStudiesForAnalysis
MaxLimit == 3

\* the most studies the provider puts on one page
MaxPage == 2

\* the first await provider.listStudies(...) settles: rejected, the error
\* leaves fetchAllStudies; resolved, totalCount ?? 0 is compared with the
\* limit and with 0, and the loop begins with its first page request
InitialSettles ==
  /\ fetchAll.pc = "initial"
  /\ \E rejected \in BOOLEAN, totalCount \in 0..MaxTotal :
       IF rejected
       THEN fetchAll' = [fetchAll EXCEPT !.pc = "done", !.result = "ProviderError"]
       ELSE fetchAll' =
              IF totalCount > fetchAll.maxStudies
              THEN [fetchAll EXCEPT !.pc = "done", !.totalStudies = totalCount,
                                    !.result = "ValidationError"]
              ELSE IF totalCount = 0
              THEN [fetchAll EXCEPT !.pc = "done", !.totalStudies = totalCount,
                                    !.result = "returned"]
              ELSE [fetchAll EXCEPT !.pc = "page", !.totalStudies = totalCount,
                                    !.paged = TRUE]
  /\ UNCHANGED <<serverVars, payloadVars, handoff, getStudy>>

\* an await provider.listStudies(...) of the loop settles: rejected, the
\* error leaves fetchAllStudies; resolved, the studies of the page (none
\* when the property is missing) are appended, pageToken is the page's
\* nextPageToken, and hasMore decides between the delay and the return
PageSettles ==
  /\ fetchAll.pc = "page"
  /\ \E rejected \in BOOLEAN, studies \in 0..MaxPage, nextPageToken \in BOOLEAN :
       IF rejected
       THEN fetchAll' = [fetchAll EXCEPT !.pc = "done", !.result = "ProviderError"]
       ELSE LET allStudies == fetchAll.allStudies + studies
                hasMore == nextPageToken /\ allStudies < fetchAll.totalStudies
            IN fetchAll' =
                 [fetchAll EXCEPT !.allStudies = allStudies,
                                  !.pageToken = nextPageToken,
                                  !.pc = IF hasMore THEN "delay" ELSE "done",
                                  !.result = IF hasMore THEN @ ELSE "returned"]
  /\ UNCHANGED <<serverVars, payloadVars, handoff, getStudy>>

\* await delay(API_CALL_DELAY_MS) settles and the next page is requested
DelaySettles ==
  /\ fetchAll.pc = "delay"
  /\ fetchAll' = [fetchAll EXCEPT !.pc = "page"]
  /\ UNCHANGED <<serverVars, payloadVars, handoff, getStudy>>

InitFetchAll ==
  /\ isStatefulMode \in BOOLEAN
  /\ GatewayEmpty
  /\ BehindPipeline
  /\ ServerListening
  /\ ProcessRunning
  /\ payload = Absent
  /\ initVerdict = <<>>
  /\ handoff = NoHandoff
  /\ getStudy = NoGetStudy
  /\ \E limit \in 1..MaxLimit :
       fetchAll = [NoFetchAll EXCEPT !.pc = "initial", !.maxStudies = limit]

NextFetchAll ==
  \/ InitialSettles
  \/ PageSettles
  \/ DelaySettles

\* every await of fetchAllStudies settles
SpecFetchAll ==
  /\ InitFetchAll
  /\ [][NextFetchAll]_vars
  /\ WF_vars(InitialSettles)
  /\ WF_vars(PageSettles)
  /\ WF_vars(DelaySettles)

\* ------------------------------------------------------------------ claims
\* the claims of an authInfo, "" when unset (no authInfo: all unset)
ClaimsOf(a) == <<a.tenantId, a.clientId, a.subject>>

IdentityClaims(identity) == <<identity.tenantId, identity.clientId, identity.subject>>

\* the requests that present a session id
Presenting == { r \in Requests : r.sid # NoSessionId }

\* C1: in stateful mode a request that presents a session id is handed a
\* transport only if the Session Store holds a record for that id that is not
\* stale and whose bound identity is absent or equal to the caller's; it is
\* then handed the registered transport, never a new one, and is otherwise
\* rejected, in every state the gateway can reach.
C1_AcceptedOnlyIfLiveAndMatching ==
  isStatefulMode =>
    \A r \in Presenting :
      LET res == resolveTransportForRequest(r, sessionStore, sessionTransports, now)
          rec == sessionStore[r.sid]
      IN /\ res.kind \in {"reuse", "response"}
         /\ res.kind = "reuse" =>
              /\ rec.exists
              /\ now - rec.lastAccessedAt <= StaleTimeoutMs
              /\ ~rec.identity.defined \/ IdentityClaims(rec.identity) = ClaimsOf(r.auth)
              /\ res.transport = sessionTransports[r.sid]
              /\ res.transport # NoTransport
         /\ res.kind = "response" => res.transport = NoTransport /\ res.status = 404

\* a request in flight was handed the registered transport of a session that
\* is bound to an identity
C1_Witness ==
  \E i \in Slots :
    /\ isStatefulMode
    /\ req[i].pc = "handle"
    /\ LET s == transports[req[i].transport].sessionId
       IN /\ s # NoSessionId
          /\ sessionTransports[s] = req[i].transport
          /\ sessionStore[s].exists
          /\ sessionStore[s].identity.defined

\* C2: a live session bound to identity I1 rejects every request whose
\* claims differ from I1 in tenant, client or subject and accepts the request
\* whose claims are identical; a session bound to no identity accepts any
\* claims.  (Session 1 has a registered transport throughout SpecIdentity.)
C2_IdentityBinding ==
  LET rec == sessionStore[1] IN
  (rec.exists /\ now - rec.lastAccessedAt <= StaleTimeoutMs
     /\ sessionTransports[1] # NoTransport) =>
    \A r \in RequestsOf({1}, AllAuthInfos) :
      LET res == resolveTransportForRequest(r, sessionStore, sessionTransports, now)
      IN IF ~rec.identity.defined \/ IdentityClaims(rec.identity) = ClaimsOf(r.auth)
         THEN res.kind = "reuse"
         ELSE res = Reject(404, "Session not found or expired")

\* a request presenting the id of a live, identity-bound session was
\* rejected with 404
C2_Witness ==
  /\ last.sid = 1
  /\ last.status = 404
  /\ sessionStore[1].exists
  /\ now - sessionStore[1].lastAccessedAt <= StaleTimeoutMs
  /\ sessionStore[1].identity.defined
  /\ \E c \in ClaimValues \ {""} : sessionStore[1].identity.subject = c

\* the ids that have a transport in the Transport Registry, and those that
\* have a record in the Session Store
RegistryIds == { id \in SessionIds : sessionTransports[id] # NoTransport }

StoreIds == { id \in SessionIds : sessionStore[id].exists }

\* the transports that are open under session id id
LiveTransports(id) ==
  { t \in TransportIds : transports[t].kind = "stateful" /\ ~transports[t].closed
                          /\ transports[t].sessionId = id }

\* C3: in stateful mode the Transport Registry and the Session Store hold
\* the same session ids in every state a request can observe.
C3_RegistryEqualsStore == isStatefulMode => RegistryIds = StoreIds

\* C4: each session id has at most one open transport, a registered
\* transport is the open transport of its id, and a request that presents an
\* id with a registered transport is never given a new transport.
C4_OneTransportPerSession ==
  isStatefulMode =>
    \A id \in SessionIds :
      /\ Cardinality(LiveTransports(id)) <= 1
      /\ sessionTransports[id] # NoTransport =>
           /\ LiveTransports(id) = {sessionTransports[id]}
           /\ \A r \in Presenting :
                r.sid = id =>
                  resolveTransportForRequest(r, sessionStore, sessionTransports, now).kind
                    # "create"

\* two requests in flight share the registered transport of one session
C4_Witness ==
  /\ isStatefulMode
  /\ \E i, j \in Slots :
       /\ i # j
       /\ req[i].pc = "handle" /\ req[j].pc = "handle"
       /\ req[i].transport = req[j].transport
       /\ \E id \in SessionIds : sessionTransports[id] = req[i].transport

\* C5: with the id generator forced to return one id, concurrent
\* initializations leave at most one open transport under that id.
C5_OneTransportUnderCollision ==
  isStatefulMode => \A id \in SessionIds : Cardinality(LiveTransports(id)) <= 1

\* C6: in stateless mode the Transport Registry and the Session Store hold
\* no entry, after any sequence of requests.
C6_StatelessRegistriesEmpty ==
  ~isStatefulMode => RegistryIds = {} /\ StoreIds = {}

\* a stateless request went through the engine and was answered, and its
\* transport is closed
C6_Witness ==
  /\ ~isStatefulMode
  /\ last.status = 200
  /\ \E t \in TransportIds : transports[t] = Tombstone("stateless")
  /\ \A i \in Slots : req[i].pc = "idle"

\* the slots whose request holds transport t
Holders(R, t) == { i \in Slots : R[i].pc = "handle" /\ R[i].transport = t }

C8_RecordsOnlyFromInitialization ==
  [][\A id \in SessionIds :
       (~sessionStore[id].exists /\ sessionStore'[id].exists) =>
         /\ isStatefulMode
         /\ id = GeneratedId
         /\ \E i \in Slots :
              /\ req[i].pc = "handle" /\ req'[i].pc = "idle"
              /\ req[i].method = "POST"
              /\ req[i].body = "init"
              /\ transports[req[i].transport].sessionId = NoSessionId
              /\ transports'[req[i].transport].sessionId = id]_vars

\* a session exists after an initialization
C8_Witness ==
  /\ isStatefulMode
  /\ StoreIds # {}
  /\ last.status = 200
  /\ \A i \in Slots : req[i].pc = "idle"

\* C9: when the engine completes the handshake of transport t under id,
\* neither registry held id before, and after it the Transport Registry maps
\* id to t and the Session Store holds id bound to the identity t was built
\* with; when the engine closes the session of a transport, both registries
\* have dropped its id; a transport without a session id is never registered.
C9_CallbacksUpdateBoth ==
  [][isStatefulMode =>
       /\ \A id \in SessionIds :
            sessionTransports[id] # NoTransport =>
              transports[sessionTransports[id]].sessionId = id
       /\ \A t \in TransportIds, id \in SessionIds :
            /\ (transports[t].sessionId = NoSessionId /\ transports'[t].sessionId = id) =>
                 /\ sessionTransports[id] = NoTransport
                 /\ ~sessionStore[id].exists
                 /\ sessionTransports'[id] = t
                 /\ sessionStore'[id].exists
                 /\ sessionStore'[id].identity = transports[t].identity
            /\ (transports[t].sessionId = id /\ ~transports[t].closed /\ transports'[t].closed) =>
                 /\ sessionTransports'[id] = NoTransport
                 /\ ~sessionStore'[id].exists]_vars

\* one session was closed and is in neither registry, another is in both,
\* bound to its creator's identity
C9_Witness ==
  /\ isStatefulMode
  /\ \E id \in terminated : id \notin RegistryIds /\ id \notin StoreIds
  /\ \E id \in RegistryIds :
       /\ sessionStore[id].exists
       /\ sessionStore[id].identity.defined
       /\ sessionStore[id].identity = transports[sessionTransports[id]].identity

\* C10: a terminated session id has no record, isValidForIdentity is false
\* for it whatever the identity, and every request presenting it is rejected
\* with 404 'Session not found or expired'.
C10_TerminatedStaysInvalid ==
  isStatefulMode =>
    \A id \in terminated :
      /\ \A a \in AuthInfos :
           ~IsValidForIdentity(sessionStore, id, extractSessionIdentity(a), now)
      /\ \A r \in Presenting :
           r.sid = id =>
             resolveTransportForRequest(r, sessionStore, sessionTransports, now)
               = Reject(404, "Session not found or expired")

\* a request presenting a terminated id was rejected with 404
C10_Witness ==
  /\ isStatefulMode
  /\ last.sid \in terminated
  /\ last.status = 404
  /\ last.error = "Session not found or expired"

\* C11: a session last accessed at t is accepted for a matching identity
\* up to t + staleTimeoutMs (so at t + staleTimeoutMs - 1) and rejected with
\* 404 from t + staleTimeoutMs + 1 on: it is refused exactly when
\* now - lastAccessedAt > staleTimeoutMs, and the lookup that finds it stale
\* removes its record from the Session Store.
C11_StaleBoundary ==
  isStatefulMode =>
    \A r \in Presenting :
      LET rec == sessionStore[r.sid]
          identity == extractSessionIdentity(r.auth)
          valid == IsValidForIdentity(sessionStore, r.sid, identity, now)
          res == resolveTransportForRequest(r, sessionStore, sessionTransports, now)
          after == StoreAfterResolution(r, sessionStore, sessionTransports, now)
      IN (rec.exists /\ (~rec.identity.defined \/ rec.identity = identity)) =>
           /\ valid <=> now - rec.lastAccessedAt <= StaleTimeoutMs
           /\ now = rec.lastAccessedAt + StaleTimeoutMs - 1 => valid
           /\ now = rec.lastAccessedAt + StaleTimeoutMs => valid
           /\ now = rec.lastAccessedAt + StaleTimeoutMs + 1 => ~valid
           /\ valid => after[r.sid].exists
           /\ ~valid => /\ res = Reject(404, "Session not found or expired")
                        /\ ~after[r.sid].exists
                        /\ \A id \in SessionIds \ {r.sid} : after[id] = sessionStore[id]

\* a request presenting a session that had gone stale was answered 404 and
\* the record is gone, while its transport is still registered
C11_Witness ==
  /\ isStatefulMode
  /\ \E s \in SessionIds :
       /\ last = [sid |-> s, status |-> 404, error |-> "Session not found or expired"]
       /\ ~sessionStore[s].exists
       /\ sessionTransports[s] # NoTransport
       /\ s \notin terminated
       /\ now = StaleTimeoutMs + 1

\* C12: getOrCreate on an id with a live record only refreshes
\* lastAccessedAt (identity and createdAt stay, whatever identity the caller
\* passes), on an id without a live record it creates the record with the
\* given identity and the current time, it touches no other id, and a second
\* caller for the same id, whatever its identity, leaves the record of the
\* first: the reuse path touches the session that way, and
\* onsessioninitialized creates the record of a new id that way.
C12_GetOrCreate ==
  isStatefulMode =>
    /\ \A r \in Presenting :
         LET rec == sessionStore[r.sid]
             after == StoreAfterResolution(r, sessionStore, sessionTransports, now)
         IN resolveTransportForRequest(r, sessionStore, sessionTransports, now).kind = "reuse" =>
              /\ after[r.sid] = [rec EXCEPT !.lastAccessedAt = now]
              /\ \A k \in SessionIds \ {r.sid} : after[k] = sessionStore[k]
    /\ \A id \in SessionIds, a \in AuthInfos :
         LET identity == extractSessionIdentity(a)
             once == GetOrCreate(sessionStore, id, identity, now)
             cb == onsessioninitialized(sessionTransports, sessionStore, id, 1, identity, now)
         IN /\ cb.store = once
            /\ once[id].exists
            /\ IsLive(sessionStore, id, now) =>
                 once[id] = [sessionStore[id] EXCEPT !.lastAccessedAt = now]
            /\ ~IsLive(sessionStore, id, now) =>
                 once[id] = [exists |-> TRUE, identity |-> identity,
                             createdAt |-> now, lastAccessedAt |-> now]
            /\ \A k \in SessionIds \ {id} : once[k] = sessionStore[k]
            /\ \A b \in AuthInfos :
                 GetOrCreate(once, id, extractSessionIdentity(b), now) = once

\* a session bound to no identity was refreshed after its creation
C12_Witness ==
  /\ isStatefulMode
  /\ \E id \in SessionIds :
       /\ sessionStore[id].exists
       /\ sessionStore[id].lastAccessedAt > sessionStore[id].createdAt
       /\ ~sessionStore[id].identity.defined

\* C13: terminate on an id that has no record changes nothing, terminate on
\* an id that has one removes that record only, and a second terminate of the
\* same id leaves the store as the first left it.
C13_TerminateIdempotent ==
  [][\A t \in TransportIds, id \in SessionIds :
       (transports[t].kind = "stateful" /\ transports[t].sessionId = id
          /\ ~transports[t].closed /\ transports'[t].closed) =>
         /\ ~sessionStore'[id].exists
         /\ \A k \in SessionIds \ {id} : sessionStore'[k] = sessionStore[k]
         /\ ~sessionStore[id].exists => sessionStore' = sessionStore
         /\ Terminate(sessionStore', id) = sessionStore']_vars

\* the record of a session was evicted as stale while its transport is
\* registered and open, so that the closure the engine signals for it calls
\* terminate on an id without record, and another session has a record
C13_Witness ==
  /\ isStatefulMode
  /\ \E t \in TransportIds :
       LET id == transports[t].sessionId
       IN /\ id # NoSessionId
          /\ id \notin terminated
          /\ sessionTransports[id] = t
          /\ ~sessionStore[id].exists
          /\ \E k \in SessionIds \ {id} : sessionStore[k].exists
          /\ ENABLED EngineSignalsClosure(t)

\* the requests that reach resolveTransportForRequest: the body of a POST
\* parsed
Resolved == { r \in Requests : ~BodyRejected(r) }

\* C14: in stateful mode a request of any method that presents a session id
\* valid for its identity, with a transport registered under that id,
\* resolves to that transport with created = false, no transport is built,
\* and the request refreshes the session's lastAccessedAt and nothing else
\* in the Session Store.
C14_ValidSessionReusesAndTouches ==
  isStatefulMode =>
    \A r \in Resolved :
      (/\ r.sid # NoSessionId
       /\ IsValidForIdentity(sessionStore, r.sid, extractSessionIdentity(r.auth), now)
       /\ sessionTransports[r.sid] # NoTransport) =>
        LET res == resolveTransportForRequest(r, sessionStore, sessionTransports, now)
            after == StoreAfterResolution(r, sessionStore, sessionTransports, now)
        IN /\ res = [kind |-> "reuse", status |-> 0, error |-> "",
                     transport |-> sessionTransports[r.sid], created |-> FALSE]
           /\ after[r.sid].exists
           /\ after[r.sid].lastAccessedAt = now
           /\ after = [sessionStore EXCEPT ![r.sid].lastAccessedAt = now]

\* a DELETE in flight holds the registered transport of a session that was
\* touched after the clock had moved on from its creation
C14_Witness ==
  /\ isStatefulMode
  /\ \E i \in Slots, id \in SessionIds :
       /\ req[i].pc = "handle"
       /\ req[i].method = "DELETE"
       /\ sessionTransports[id] = req[i].transport
       /\ sessionStore[id].exists
       /\ sessionStore[id].lastAccessedAt = now
       /\ sessionStore[id].createdAt < now

\* POSTs without a session id that carry an initialize request
Initializations ==
  { r \in Requests : r.method = "POST" /\ r.sid = NoSessionId /\ r.body = "init" }

\* request r is taken in slot i and leaves the handler's first step with a
\* transport
Accepted(i, r) == Endpoint(i, {r}) /\ req'[i].pc = "handle"

\* C15: in stateful mode a request resolves to a new transport exactly when
\* it is a POST without session id that carries an initialize request; the
\* Resolution then has created = true, and the transport the handler builds
\* for it is a stateful transport without session id that carries the
\* identity of the caller, registered nowhere yet.
C15_InitializationCreates ==
  isStatefulMode =>
    /\ \A r \in Resolved :
         LET res == resolveTransportForRequest(r, sessionStore, sessionTransports, now)
         IN /\ res.kind = "create" <=> r \in Initializations
            /\ res.created <=> res.kind = "create"
    /\ \A r \in Initializations, i \in Slots :
         /\ StoreAfterResolution(r, sessionStore, sessionTransports, now) = sessionStore
         /\ (req[i].pc = "idle" /\ (\A j \in Slots : req[j].pc = "idle" => i <= j)
               /\ FreeTransports # {}) => ENABLED Accepted(i, r)
         /\ ~ENABLED (/\ Accepted(i, r)
                      /\ ~(/\ transports'[req'[i].transport] =
                                [kind |-> "stateful", sessionId |-> NoSessionId,
                                 identity |-> extractSessionIdentity(r.auth),
                                 connects |-> 1, closed |-> FALSE]
                           /\ transports[req'[i].transport] # transports'[req'[i].transport]
                           /\ \A t \in TransportIds \ {req'[i].transport} :
                                transports'[t] = transports[t]
                           /\ \A id \in SessionIds :
                                sessionTransports'[id] # req'[i].transport
                           /\ sessionStore' = sessionStore))

\* an initialize POST is in flight on a new transport that carries its
\* caller's identity and has no session id yet
C15_Witness ==
  /\ isStatefulMode
  /\ \E i \in Slots :
       /\ req[i].pc = "handle"
       /\ req[i].method = "POST"
       /\ req[i].body = "init"
       /\ transports[req[i].transport].kind = "stateful"
       /\ transports[req[i].transport].sessionId = NoSessionId
       /\ transports[req[i].transport].connects = 1
       /\ transports[req[i].transport].identity.defined
       /\ \A id \in SessionIds : sessionTransports[id] # req[i].transport

\* C16: in stateful mode a request of any method and payload that presents
\* a session id for which isValidForIdentity fails (never issued, stale,
\* terminated, or bound to another identity) is answered 404 'Session not
\* found or expired', where the same request without the id would be
\* answered 400 or would start a session.
C16_InvalidSessionIs404 ==
  isStatefulMode =>
    \A r \in Resolved :
      (/\ r.sid # NoSessionId
       /\ ~IsValidForIdentity(sessionStore, r.sid, extractSessionIdentity(r.auth), now)) =>
        /\ resolveTransportForRequest(r, sessionStore, sessionTransports, now)
             = Reject(404, "Session not found or expired")
        /\ LET bare == resolveTransportForRequest([r EXCEPT !.sid = NoSessionId],
                                                  sessionStore, sessionTransports, now)
           IN bare.kind = "create" \/ bare.status = 400

\* a request presenting the id of a live session bound to another identity
\* was answered 404
C16_Witness ==
  /\ isStatefulMode
  /\ \E s \in SessionIds :
       /\ last = [sid |-> s, status |-> 404, error |-> "Session not found or expired"]
       /\ sessionStore[s].exists
       /\ sessionStore[s].identity.defined
       /\ sessionStore[s].lastAccessedAt = now
       /\ sessionStore[s].createdAt = now
       /\ sessionTransports[s] # NoTransport

\* C17: a request that presents a session id the Session Store accepts for
\* its identity while the Transport Registry has no transport for that id is
\* answered 404 'Session not found or expired'; the session is not touched,
\* and no transport is ever built or registered for the id.
C17_UnboundSessionIs404 ==
  /\ \A t \in TransportIds : transports[t] = NoTransportRec
  /\ \A id \in SessionIds : sessionTransports[id] = NoTransport
  /\ \A i \in Slots : req[i].pc = "idle"
  /\ \A r \in RequestsOf({1}, AllAuthInfos) :
       (/\ ~BodyRejected(r)
        /\ IsValidForIdentity(sessionStore, r.sid, extractSessionIdentity(r.auth), now)) =>
         /\ resolveTransportForRequest(r, sessionStore, sessionTransports, now)
              = Reject(404, "Session not found or expired")
         /\ StoreAfterResolution(r, sessionStore, sessionTransports, now) = sessionStore

\* a request presenting the id of a live record that is bound to no
\* identity, hence valid for every caller, was answered 404
C17_Witness ==
  /\ last = [sid |-> 1, status |-> 404, error |-> "Session not found or expired"]
  /\ sessionStore[1].exists
  /\ ~sessionStore[1].identity.defined
  /\ now - sessionStore[1].lastAccessedAt <= StaleTimeoutMs
  /\ sessionTransports[1] = NoTransport

\* POSTs without a session id whose JSON body is not an initialize request
InitRequired == { r \in Requests : r.method = "POST" /\ r.sid = NoSessionId /\ r.body = "other" }

\* C18: in stateful mode a POST without session id whose JSON body is not
\* an initialize request is answered 400 'Initialization request required
\* to create a new MCP session.', and answering it builds no transport and
\* changes neither the Session Store nor the Transport Registry.
C18_InitializationRequired ==
  [][isStatefulMode =>
       /\ \A r \in InitRequired :
            /\ resolveTransportForRequest(r, sessionStore, sessionTransports, now)
                 = Reject(400, "Initialization request required to create a new MCP session.")
            /\ StoreAfterResolution(r, sessionStore, sessionTransports, now) = sessionStore
       /\ (/\ last' # last
           /\ last'.error = "Initialization request required to create a new MCP session.") =>
            /\ last'.status = 400
            /\ transports' = transports
            /\ sessionStore' = sessionStore
            /\ sessionTransports' = sessionTransports
            /\ \A i \in Slots : req'[i].pc = "handle" => req'[i] = req[i]]_vars

\* such a POST was answered while no session and no transport exists
C18_Witness ==
  /\ isStatefulMode
  /\ last = [sid |-> NoSessionId, status |-> 400,
             error |-> "Initialization request required to create a new MCP session."]
  /\ \A id \in SessionIds : ~sessionStore[id].exists /\ sessionTransports[id] = NoTransport
  /\ \A t \in TransportIds : transports[t] = NoTransportRec

\* GETs and DELETEs without a session id
HeaderRequired == { r \in Requests : r.method # "POST" /\ r.sid = NoSessionId }

\* C19: in stateful mode a GET or DELETE without session id is answered 400
\* 'Mcp-Session-Id header required for this request' and is handed to no
\* transport: answering it changes no transport and neither registry.
C19_SessionHeaderRequired ==
  [][isStatefulMode =>
       /\ \A r \in HeaderRequired :
            /\ resolveTransportForRequest(r, sessionStore, sessionTransports, now)
                 = Reject(400, "Mcp-Session-Id header required for this request")
            /\ StoreAfterResolution(r, sessionStore, sessionTransports, now) = sessionStore
       /\ (/\ last' # last
           /\ last'.error = "Mcp-Session-Id header required for this request") =>
            /\ last'.status = 400
            /\ transports' = transports
            /\ sessionStore' = sessionStore
            /\ sessionTransports' = sessionTransports
            /\ \A i \in Slots : req'[i].pc = "handle" => req'[i] = req[i]]_vars

\* such a request was answered while a session exists, and its transport
\* holds no request
C19_Witness ==
  /\ isStatefulMode
  /\ last = [sid |-> NoSessionId, status |-> 400,
             error |-> "Mcp-Session-Id header required for this request"]
  /\ \E id \in SessionIds : sessionStore[id].exists /\ sessionTransports[id] # NoTransport
  /\ \A i \in Slots : req[i].pc = "idle"

\* DELETEs, with or without a session id
Deletes == { r \in Requests : r.method = "DELETE" }

\* C20: in stateless mode a DELETE, with or without session id, is answered
\* 405 'Session termination not supported in stateless mode' and no
\* transport is built for it.
C20_StatelessDeleteIs405 ==
  [][~isStatefulMode =>
       /\ \A r \in Deletes :
            resolveTransportForRequest(r, sessionStore, sessionTransports, now)
              = Reject(405, "Session termination not supported in stateless mode")
       /\ \A i \in Slots : req'[i].pc = "handle" => req'[i].method # "DELETE"
       /\ (/\ last' # last
           /\ last'.status = 405) =>
            /\ last'.error = "Session termination not supported in stateless mode"
            /\ transports' = transports
            /\ \A i \in Slots : req'[i].pc = "handle" => req'[i] = req[i]]_vars

\* a stateless DELETE that presented a session id was answered 405 and no
\* transport was ever built
C20_Witness ==
  /\ ~isStatefulMode
  /\ \E s \in SessionIds :
       last = [sid |-> s, status |-> 405,
               error |-> "Session termination not supported in stateless mode"]
  /\ \A t \in TransportIds : transports[t] = NoTransportRec

\* ---------------------------------------------------------------- C21-C25
\* request raw arrives and runs through the stages
Arrives(raw) == Pipeline(1, {raw})

InvalidOrigin == "Invalid origin. DNS rebinding protection."

InvalidJson == "Invalid JSON payload. Ensure the body is valid JSON."

\* the stage that answered the request that arrived last, or took it over
Responder == trail[Len(trail)]

StaleSessions == { id \in SessionIds : sessionStore[id].exists /\ IsStale(sessionStore[id], now) }

\* C21: for every allow-list L and every Origin header h, a request passes
\* the Origin Guard exactly when L is empty or not configured, or h is
\* absent, or h is in L.
C21_OriginGuardPasses ==
  \A raw \in RawRequests :
    ~ENABLED (/\ Arrives(raw)
              /\ ~((trail' # <<"originGuard">>)
                     <=> \/ mcpAllowedOrigins.list = {}
                         \/ ~raw.origin.present
                         \/ raw.origin.value \in mcpAllowedOrigins.list))

\* the requests the Origin Guard rejects
OriginRejected == { raw \in RawRequests : originGuard(raw.origin) = "reject" }

\* C22: a request the Origin Guard rejects is answered 403 by the guard and
\* processed no further: no later stage runs, the request is not handed to
\* session resolution, no transport is created, and the Session Store and
\* the Transport Registry are unchanged (no session is touched or evicted).
C22_OriginRejectedStops ==
  \A raw \in OriginRejected :
    /\ req[1].pc = "idle" => ENABLED Arrives(raw)
    /\ ~ENABLED (/\ Arrives(raw)
                 /\ ~(/\ last' = [sid |-> NoSessionId, status |-> 403,
                                  error |-> InvalidOrigin]
                      /\ trail' = <<"originGuard">>
                      /\ UNCHANGED <<req, sessionStore, sessionTransports, transports>>))

\* a request presenting an origin outside the list was answered 403 while
\* the store holds a stale session, which the rejection left in place
C22_Witness ==
  /\ trail = <<"originGuard">>
  /\ last.status = 403
  /\ last.error = InvalidOrigin
  /\ StaleSessions # {}

InfoRequests ==
  { raw \in RawRequests :
      /\ raw.method = "GET"
      /\ \A k \in 1..Len(raw.accept) : raw.accept[k] # "text/event-stream" }

StreamRequests ==
  { raw \in RawRequests :
      /\ raw.method = "GET"
      /\ raw \notin InfoRequests
      /\ originGuard(raw.origin) = "next"
      /\ authStrategy => authMiddleware(raw.authorization).ok }

\* C24: a GET past the Origin Guard whose Accept does not include
\* text/event-stream is answered 200 with the server info and is not handed
\* to session resolution: no transport is created and the store and the
\* registry are unchanged, in both modes, with or without a session id; a
\* GET whose Accept includes text/event-stream is handed to session
\* resolution.
C24_ServerInfo ==
  /\ \A raw \in InfoRequests :
       originGuard(raw.origin) = "next" =>
         /\ req[1].pc = "idle" => ENABLED Arrives(raw)
         /\ ~ENABLED (/\ Arrives(raw)
                      /\ ~(/\ last' = [sid |-> NoSessionId, status |-> 200, error |-> ""]
                           /\ trail' = <<"originGuard", "serverInfo">>
                           /\ UNCHANGED <<req, sessionStore, sessionTransports,
                                          transports>>))
  /\ \A raw \in StreamRequests :
       ~ENABLED (/\ Arrives(raw)
                 /\ ~(/\ trail'[Len(trail')] = "handler"
                      /\ sessionStore' = StoreAfterResolution(Delegated(raw), sessionStore,
                                                              sessionTransports, now)))

\* the server info was returned in stateful mode while the store holds a
\* stale session
C24_Witness ==
  /\ isStatefulMode
  /\ trail = <<"originGuard", "serverInfo">>
  /\ last.status = 200
  /\ StaleSessions # {}

\* the POSTs past the guard and the auth middleware whose body is not JSON
InvalidJsonRequests ==
  { raw \in RawRequests :
      /\ raw.method = "POST"
      /\ raw.body = "invalid"
      /\ originGuard(raw.origin) = "next"
      /\ authStrategy => authMiddleware(raw.authorization).ok }

\* C25: a POST whose body is not valid JSON is answered 400 "Invalid JSON
\* payload" in both modes whatever session id it presents: the body is
\* parsed before session resolution, so no transport is created, no session
\* is validated, touched or evicted, and the store and the registry are
\* unchanged.
C25_InvalidJsonIs400 ==
  \A raw \in InvalidJsonRequests :
    /\ req[1].pc = "idle" => ENABLED Arrives(raw)
    /\ ~ENABLED (/\ Arrives(raw)
                 /\ ~(/\ last' = [sid |-> NoSessionId, status |-> 400,
                                  error |-> InvalidJson]
                      /\ trail'[Len(trail')] = "handler"
                      /\ UNCHANGED <<req, sessionStore, sessionTransports, transports>>))

\* a POST that is not JSON was answered 400 by app.all while the store
\* holds a stale session
C25_Witness ==
  /\ last.status = 400
  /\ last.error = InvalidJson
  /\ Responder = "handler"
  /\ StaleSessions # {}

\* ---------------------------------------------------------------- C26-C28
\* ports P, P+1 and P+2 are in use and P+3 is free
ThreeOccupied ==
  /\ \A p \in InitialPort..(InitialPort + 2) : portStatus[p] = "inUse"
  /\ portStatus[InitialPort + 3] = "free"

\* C26: with ports P, P+1 and P+2 occupied and P+3 free, a launcher started
\* at P with maxRetries >= 3 binds P+3 and reports it, and a launcher with
\* maxRetries = 2 reports the fatal failure without binding a port.
C26_FourthPort ==
  ThreeOccupied =>
    /\ maxRetries >= 3 =>
         /\ listening \in {NoPort, InitialPort + 3}
         /\ \A k \in 1..Len(settled) :
              settled[k] = [kind |-> "resolve", port |-> InitialPort + 3]
         /\ binder.pc \in {"done", "failed"} =>
              /\ listening = InitialPort + 3
              /\ Len(settled) = 1
    /\ maxRetries = 2 =>
         /\ listening = NoPort
         /\ \A k \in 1..Len(probed) : probed[k] # InitialPort + 3
         /\ \A k \in 1..Len(settled) : settled[k].kind = "reject"
         /\ binder.pc \in {"done", "failed"} => Len(settled) = 1

\* the launcher with three retries has bound the fourth port
C26_Witness ==
  /\ ThreeOccupied
  /\ maxRetries = 3
  /\ binder.pc = "done"
  /\ probed = <<InitialPort, InitialPort + 1, InitialPort + 2, InitialPort + 3>>
  /\ listening = InitialPort + 3

\* C27: attempt k probes port initialPort + k - 1, at most maxRetries + 1
\* ports are probed, and the launcher settles exactly once: it resolves with
\* the first port that both probed free and bound, or rejects once attempt
\* exceeds maxRetries + 1.
C27_SettlesOnce ==
  /\ \A k \in 1..Len(probed) : probed[k] = InitialPort + k - 1
  /\ Len(probed) <= maxRetries + 1
  /\ Len(settled) <= 1
  /\ binder.pc \in {"done", "failed"} => Len(settled) = 1
  /\ \A k \in 1..Len(settled) :
       IF settled[k].kind = "resolve"
       THEN /\ settled[k].port = probed[Len(probed)]
            /\ ~isPortInUse(portStatus[settled[k].port])
            /\ binder.pc \in {"done", "failed"} => listening = settled[k].port
       ELSE /\ binder.attempt > maxRetries + 1
            /\ listening = NoPort

\* C28: when the probe reports a port free and the bind on it fails, the
\* launcher reports no success for that port and goes on, after the retry
\* delay, with port + 1 and attempt + 1.
C28_BindFailureIsRetried ==
  \A k \in 1..Len(probed) :
    portStatus[probed[k]] = "raced" =>
      /\ \A j \in 1..Len(settled) : settled[j] # [kind |-> "resolve", port |-> probed[k]]
      /\ k = Len(probed) => binder.pc \in {"probe", "delay"}

\* ---------------------------------------------------------------- C29-C30
\* how often a step was started
Started(step) == Cardinality({ k \in 1..Len(performed) : performed[k] = step })

\* C29: whatever the order in which SIGTERM, SIGINT, uncaughtException and
\* unhandledRejection arrive, only the first call of shutdown proceeds and
\* every later call returns without effect: the server is stopped at most
\* once, exit is requested at most once, and isShuttingDown, once true,
\* stays true.
C29_ShutdownIdempotent ==
  [][/\ isShuttingDown => isShuttingDown'
     /\ Cardinality({ k \in 1..Len(performed') : performed'[k] = "stop" }) <= 1
     /\ Len(exits') <= 1
     /\ triggers' # triggers =>
          IF isShuttingDown
          THEN UNCHANGED <<serverRunning, isShuttingDown, shutdownPc, performed, raised,
                           exits>>
          ELSE /\ isShuttingDown'
               /\ performed' = <<"stop">>]_vars

\* two different triggers arrived, the second while the first shutdown was
\* under way, and the process exited after one stop of the server
C29_Witness ==
  /\ Len(triggers) >= 2
  /\ triggers[1] # triggers[2]
  /\ shutdownPc = "exited"
  /\ Started("stop") = 1
  /\ Len(exits) = 1

\* the place of a step in the order of a shutdown
Rank(step) ==
  CASE step = "stop" -> 1
    [] step = "telemetry" -> 2
    [] step = "close" -> 3
    [] step = "exit" -> 4

\* C30: a proceeding shutdown stops the server, flushes telemetry, closes the
\* logger and exits, in this order; the exit code is 0 exactly when no step
\* raised, and 1 when any step raised.
C30_ShutdownOrderAndCode ==
  /\ \A j, k \in 1..Len(performed) : j < k => Rank(performed[j]) <= Rank(performed[k])
  /\ Started("exit") = Len(exits)
  /\ shutdownPc = "exited" =>
       /\ performed[Len(performed)] = "exit"
       /\ exits \in {<<0>>, <<1>>}
       /\ exits = <<0>> <=> raised = <<>>
       /\ raised = <<>> => performed = <<"stop", "telemetry", "close", "exit">>
  /\ (isShuttingDown /\ raised = <<>>) =>
       \E n \in 1..4 : performed = SubSeq(<<"stop", "telemetry", "close", "exit">>, 1, n)

\* the flush of telemetry raised and the process exited with code 1
C30_Witness ==
  /\ shutdownPc = "exited"
  /\ raised = <<"telemetry">>
  /\ performed = <<"stop", "telemetry", "close", "exit">>
  /\ exits = <<1>>

\* a step of start() failed, or the listen() of the server failed: the
\* start has failed and no listener is bound
StartupFailed ==
  \/ startFailure # "none"
  \/ binder.pc = "failed" /\ listening = NoPort

Resolutions(S, T, time) ==
  [r \in Requests |-> resolveTransportForRequest(r, S, T, time)]

\* the fault of a request in slot i was caught and answered: the response is
\* the 500 of app.onError, the request has left the handler, the process was
\* not touched, and the requests that come next are resolved as they would
\* have been without the fault
FaultAnswered(i) ==
  /\ last' = [sid |-> NoSessionId, status |-> 500, error |-> "Internal Server Error"]
  /\ req'[i] = Idle
  /\ UNCHANGED <<processVars, startVars, launcherVars, unitVars>>
  /\ sessionTransports' = sessionTransports
  /\ Resolutions(sessionStore', sessionTransports', now')
       = Resolutions(sessionStore, sessionTransports, now)

\* C32: a fault raised while a request is handled (missing HTTP bindings, a
\* connect that fails, an error thrown by the engine's handleRequest), in
\* either session mode, is answered with the 500 of the request boundary
\* and leaves the process running; the server accepts the next request and
\* resolves it as it would have without the fault.
C32_FaultIsAnswered ==
  [][/\ MissingBindings(1) => FaultAnswered(1)
     /\ EngineThrows(1) => FaultAnswered(1)
     /\ \A r \in Requests :
          (/\ ~BodyRejected(r)
           /\ resolveTransportForRequest(r, sessionStore, sessionTransports, now).created
           /\ Endpoint(1, {r})
           /\ req'[1] = Idle) => FaultAnswered(1)
     /\ \A r \in Requests : Endpoint(1, {r}) =>
          \/ last' = [sid |-> NoSessionId, status |-> 500, error |-> "Internal Server Error"]
          \/ LET res == resolveTransportForRequest(r, sessionStore, sessionTransports, now)
             IN IF BodyRejected(r) THEN last'.status = 400
                ELSE IF res.kind = "response"
                THEN last' = [sid |-> r.sid, status |-> res.status, error |-> res.error]
                ELSE req'[1].pc = "handle"]_vars

\* the handleRequest of a request on a live session threw, and the session
\* is still served by its transport
C32_Witness ==
  /\ isStatefulMode
  /\ last = [sid |-> NoSessionId, status |-> 500, error |-> "Internal Server Error"]
  /\ req[1] = Idle
  /\ ~isShuttingDown /\ exits = <<>>
  /\ \E r \in Requests :
       /\ r.sid # NoSessionId
       /\ resolveTransportForRequest(r, sessionStore, sessionTransports, now).kind = "reuse"

\* the session of the transport that the request suspended in slot i was
\* handed to (NoSessionId: the transport has no session, or not yet)
SuspendedOn(i) == transports[req[i].transport].sessionId

\* the requests that do not present session id A
OtherThan(A) == { r \in Requests : A = NoSessionId \/ r.sid # A }

\* the registries without what they hold under session id A
StoreWithout(A) ==
  [id \in SessionIds |-> IF id = A THEN NoSession ELSE sessionStore[id]]

RegistryWithout(A) ==
  [id \in SessionIds |-> IF id = A THEN NoTransport ELSE sessionTransports[id]]

\* what the handler of request r in slot j leaves alone while slot i is
\* suspended on session A
LeavesAlone(i, A) ==
  /\ req'[i] = req[i]
  /\ transports'[req[i].transport] = transports[req[i].transport]
  /\ sessionTransports' = sessionTransports
  /\ A # NoSessionId => sessionStore'[A] = sessionStore[A]

\* C33: while a request is suspended inside handleRequest on session A, a
\* request for another session, or a new initialization, is taken by the
\* handler (in the next free slot), resolved and completed; its resolution
\* does not depend on what the registries hold under A, and it changes
\* neither A's entries nor the suspended request.
C33_SessionsDoNotBlock ==
  \A i \in Slots, j \in Slots :
    (req[i].pc = "handle" /\ i # j) =>
      LET A == SuspendedOn(i) IN
      /\ req[j].pc = "handle" => ENABLED (EngineServe(j) /\ LeavesAlone(i, A))
      /\ (req[j].pc = "idle" /\ \A k \in Slots : req[k].pc = "idle" => j <= k) =>
           \A r \in OtherThan(A) :
             LET res == resolveTransportForRequest(r, sessionStore, sessionTransports, now)
             IN /\ (res.kind = "create" => FreeTransports # {}) =>
                     ENABLED (Endpoint(j, {r}) /\ LeavesAlone(i, A))
                /\ A # NoSessionId =>
                     /\ StoreAfterResolution(r, sessionStore, sessionTransports, now)[A]
                          = sessionStore[A]
                     /\ resolveTransportForRequest(r, StoreWithout(A), RegistryWithout(A), now)
                          = res
                     /\ \A id \in SessionIds \ {A} :
                          StoreAfterResolution(r, StoreWithout(A), RegistryWithout(A), now)[id]
                            = StoreAfterResolution(r, sessionStore, sessionTransports, now)[id]

\* a request for session 2 was answered by the engine while a request on
\* session 1 is still suspended
C33_Witness ==
  /\ isStatefulMode
  /\ \E i \in Slots :
       /\ req[i].pc = "handle"
       /\ SuspendedOn(i) = 1
       /\ sessionTransports[1] = req[i].transport
  /\ sessionTransports[2] # NoTransport
  /\ \A j \in Slots : req[j].pc = "handle" => SuspendedOn(j) = 1
  /\ last.status = 200
  /\ sessionStore[2].lastAccessedAt > sessionStore[2].createdAt
  /\ sessionStore[1].lastAccessedAt < sessionStore[2].lastAccessedAt

\* C34: a payload counts as initialization exactly when it is one envelope
\* that is an initialize request, or a batch with at least one element that
\* is an initialize request; an absent or falsy payload, an empty batch and
\* a batch without an initialize request do not.
C34_InitializationPayload ==
  initVerdict # <<>> =>
    LET envelope == payload.kind = "object" /\ isInitializeRequest(payload.message)
        batchWithOne ==
          /\ payload.kind = "array"
          /\ \E k \in 1..Len(payload.batch) : isInitializeRequest(payload.batch[k])
    IN /\ initVerdict[1] <=> (envelope \/ batchWithOne)
       /\ payload.kind \in {"undefined", "null", "false", "zero", "emptyString"} =>
            ~initVerdict[1]
       /\ (payload.kind = "array" /\ payload.batch = <<>>) => ~initVerdict[1]
       /\ (/\ payload.kind = "array"
           /\ \A k \in 1..Len(payload.batch) : payload.batch[k].method # "initialize") =>
            ~initVerdict[1]

\* a batch whose last element alone is an initialize request was found to
\* be an initialization
C34_Witness ==
  /\ initVerdict = <<TRUE>>
  /\ payload.kind = "array"
  /\ Len(payload.batch) = MaxBatch
  /\ \A k \in 1..(MaxBatch - 1) : ~isInitializeRequest(payload.batch[k])
  /\ isInitializeRequest(payload.batch[MaxBatch])

\* the requests that resolveTransportForRequest answers with 400 or 405
RejectedByResolution ==
  { r \in Requests :
      /\ ~BodyRejected(r)
      /\ LET res == resolveTransportForRequest(r, sessionStore, sessionTransports, now)
         IN res.kind = "response" /\ res.status \in {400, 405} }

\* request r was answered in slot i as resolveTransportForRequest decided
\* and nothing else happened: no transport was built or changed, and the
\* Session Store and the Transport Registry are as they were
OnlyAnswered(i, r) ==
  /\ last' = [sid |-> r.sid,
              status |-> resolveTransportForRequest(r, sessionStore, sessionTransports,
                                                    now).status,
              error |-> resolveTransportForRequest(r, sessionStore, sessionTransports,
                                                   now).error]
  /\ req' = req
  /\ transports' = transports
  /\ sessionStore' = sessionStore
  /\ sessionTransports' = sessionTransports

\* C35: a request that session resolution rejects with 400 or 405 (session
\* id header required, initialization required, termination unsupported in
\* stateless mode) leaves the Session Store and the Transport Registry as
\* they were and has no transport constructed.
C35_RejectionChangesNothing ==
  \A r \in RejectedByResolution :
    LET res == resolveTransportForRequest(r, sessionStore, sessionTransports, now)
    IN /\ res.error \in
            IF isStatefulMode
            THEN {"Mcp-Session-Id header required for this request",
                  "Initialization request required to create a new MCP session."}
            ELSE {"Session termination not supported in stateless mode"}
       /\ ~res.created /\ res.transport = NoTransport
       /\ \A i \in Slots :
            /\ (req[i].pc = "idle" /\ \A j \in Slots : req[j].pc = "idle" => i <= j) =>
                 ENABLED (Endpoint(i, {r}) /\ OnlyAnswered(i, r))
            /\ ~ENABLED (Endpoint(i, {r}) /\ ~OnlyAnswered(i, r))

\* a DELETE without session id was rejected while a session is live and a
\* request is suspended on it, and both are as they were
C35_Witness ==
  /\ isStatefulMode
  /\ last = [sid |-> NoSessionId, status |-> 400,
             error |-> "Mcp-Session-Id header required for this request"]
  /\ \E id \in SessionIds, i \in Slots :
       /\ sessionStore[id].exists
       /\ sessionStore[id].lastAccessedAt < now
       /\ sessionTransports[id] # NoTransport
       /\ req[i].pc = "handle"
       /\ req[i].transport = sessionTransports[id]

\* C36: the MCP server is connected to a transport once, by the request
\* that created it and before the transport's first handleRequest; a
\* request that reuses a registered transport does not connect it again,
\* and a request whose connect failed never reaches handleRequest.
C36_ConnectedOnce ==
  [][/\ \A t \in TransportIds :
          /\ transports'[t].connects <= 1
          /\ transports'[t].connects > transports[t].connects =>
               /\ t \in FreeTransports
               /\ \E i \in Slots :
                    /\ req[i].pc = "idle"
                    /\ req'[i].pc = "handle"
                    /\ req'[i].transport = t
                    /\ \A id \in SessionIds : sessionTransports[id] # t
     /\ \A i \in Slots :
          /\ req'[i].pc = "handle" => transports'[req'[i].transport].connects = 1
          /\ (/\ req[i].pc = "idle"
              /\ req'[i].pc = "handle"
              /\ \E id \in SessionIds : sessionTransports[id] = req'[i].transport) =>
               /\ transports[req'[i].transport].connects = 1
               /\ transports' = transports
          /\ (/\ req[i].pc = "idle"
              /\ \A j \in Slots : req[j].pc = "idle" => i <= j
              /\ last' # last
              /\ \A j \in Slots : req[j].pc = "handle" => req'[j] = req[j]
              /\ last'.status = 500) =>
               /\ req'[i].pc = "idle"
               /\ \A t \in TransportIds : transports'[t].connects <= transports[t].connects]_vars

\* a second request is suspended on a registered transport that was
\* connected by the request that initialized its session
C36_Witness ==
  /\ isStatefulMode
  /\ \E i \in Slots, id \in SessionIds :
       /\ req[i].pc = "handle"
       /\ req[i].body = "other"
       /\ sessionTransports[id] = req[i].transport
       /\ transports[req[i].transport].connects = 1
       /\ sessionStore[id].lastAccessedAt > sessionStore[id].createdAt

\* C37: the auth info on the request handed to the engine is that of the
\* current request's auth context; without auth info in that context the
\* auth property that the request object carried is removed, so that a
\* transport never sees the identity of an earlier caller.
C37_AuthOfCurrentRequest ==
  handoff.pc = "handed" =>
    LET current == handoff.authStore
        seen == handoff.handed[Len(handoff.handed)]
    IN /\ seen = handoff.auth
       /\ (current.store /\ current.authInfo.present) => seen = current.authInfo
       /\ ~(current.store /\ current.authInfo.present) => ~seen.present
       /\ seen.present => seen = current.authInfo

\* the second request handed to the transport had no auth info while its
\* request object carried the identity of the first caller: the transport
\* was handed no identity
C37_Witness ==
  /\ handoff.pc = "handed"
  /\ Len(handoff.handed) = 2
  /\ handoff.handed[1].present
  /\ handoff.before = handoff.handed[1]
  /\ ~handoff.authStore.authInfo.present
  /\ handoff.handed[2] = NoAuth

\* C38: when every awaited step of shutdown() settles, the shutdown call
\* that proceeds ends in process.exit, called once on every path; the code
\* is 0 when no step raised and 1 otherwise, also when the logger.close()
\* of the catch block raised.
C38_ShutdownExits ==
  /\ [](Len(exits) <= 1)
  /\ isShuttingDown ~> (shutdownPc = "exited" /\ Len(exits) = 1)
  /\ [](shutdownPc = "exited" => exits = <<IF raised = <<>> THEN 0 ELSE 1>>)
  /\ []((\E k \in 1..Len(raised) : raised[k] = "lastClose") => exits = <<1>>)

\* server.stop() raised, the logger.close() of the catch block raised too,
\* and process.exit(1) was called
C38_Witness ==
  /\ shutdownPc = "exited"
  /\ raised = <<"stop", "lastClose">>
  /\ exits = <<1>>

\* how often id x occurs among the elements of sequence q at the places K
Occurrences(q, K, x) == Cardinality({ k \in K : q[k] = x })

\* C39: the get-study tool fetches the requested ids concurrently and, in
\* whatever order the fetches settle and whichever of them fail, ends with
\* every requested id in exactly one of studies and errors; it raises
\* ServiceUnavailable exactly when every id failed, and otherwise returns
\* the studies, with an errors list exactly when an id failed.
C39_EveryIdAccountedOnce ==
  LET g == getStudy
      all == 1..Len(g.nctIds)
      inStudies(x) == Occurrences(g.studies, 1..Len(g.studies), x)
      inErrors(x) == Occurrences(g.errors, 1..Len(g.errors), x)
  IN /\ g.pc = "fetching" =>
          \A x \in NctIds :
            inStudies(x) + inErrors(x) = Occurrences(g.nctIds, all \ g.pending, x)
     /\ g.pc = "done" =>
          /\ Len(g.studies) + Len(g.errors) = Len(g.nctIds)
          /\ \A x \in NctIds : inStudies(x) + inErrors(x) = Occurrences(g.nctIds, all, x)
          /\ g.result.kind = "ServiceUnavailable" <=> Len(g.errors) = Len(g.nctIds)
          /\ g.result.kind # "ServiceUnavailable" =>
               /\ g.result.kind = "returned"
               /\ g.result.studies = g.studies
               /\ g.result.hasErrors <=> Len(g.errors) > 0
               /\ g.result.hasErrors => g.result.errors = g.errors

\* three ids were requested, the last fetch settled first and failed, the
\* other two succeeded in reverse order, and the tool returned two studies
\* and one error
C39_Witness ==
  /\ getStudy.pc = "done"
  /\ getStudy.nctIds = <<"NCT00000001", "NCT00000002", "NCT00000001">>
  /\ getStudy.result.kind = "returned"
  /\ getStudy.result.studies = <<"NCT00000002", "NCT00000001">>
  /\ getStudy.result.hasErrors
  /\ getStudy.result.errors = <<"NCT00000001">>

\* C40: fetchAllStudies raises a validation error, before any full page is
\* requested, when the reported total exceeds maxStudiesForAnalysis, and
\* returns the empty list without paging when the total is 0; otherwise its
\* loop stops as soon as a page has no next-page token or the accumulated
\* count reaches the reported total, and it ends whatever the provider
\* does.
C40_FetchAllTerminates ==
  /\ [](fetchAll.result = "ValidationError" =>
          fetchAll.totalStudies > fetchAll.maxStudies /\ ~fetchAll.paged)
  /\ []((fetchAll.pc # "initial" /\ fetchAll.result # "ProviderError") =>
          /\ fetchAll.totalStudies > fetchAll.maxStudies =>
               fetchAll.result = "ValidationError"
          /\ fetchAll.totalStudies = 0 =>
               /\ fetchAll.result = "returned"
               /\ fetchAll.allStudies = 0
               /\ ~fetchAll.paged)
  /\ [](fetchAll.pc = "delay" =>
          fetchAll.pageToken /\ fetchAll.allStudies < fetchAll.totalStudies)
  /\ []((fetchAll.paged /\ fetchAll.result = "returned") =>
          ~fetchAll.pageToken \/ fetchAll.allStudies >= fetchAll.totalStudies)
  /\ <>(fetchAll.pc = "done")


====
